---- MODULE Spec2Model ----
(***************************************************************************)
(* TSDuck: the section demultiplexer (SectionDemux) and the DVB scrambler  *)
(* plugin (ScramblerPlugin) with its two crypto-period slots.              *)
(*                                                                         *)
(* Three specifications share this module:                                 *)
(*   SpecDemux      the demux fed with arbitrary packets, with handlers    *)
(*                  that may reset the demux re-entrantly;                 *)
(*   SpecRoundTrip  the demux fed with the packets of one packetized table;*)
(*   SpecScrambler  the plugin thread and the ECMG callback thread.        *)
(* Each specification leaves the variables of the others unchanged.        *)
(***************************************************************************)
EXTENDS Integers, Sequences, FiniteSets, TLC

VARIABLES
    \* ---- SectionDemux (tsSectionDemux.cpp) ----
    section_handler,   \* _section_handler != 0
    table_handler,     \* _table_handler != 0
    handler_act,       \* what a handler does when it acts: "none", "reset", "reset_pid"
    handler_at,        \* the handler invocation of a feedPacket that acts (1 = the first)
    pid_filter,        \* _pid_filter
    pids,              \* _pids : PID -> PIDContext (only the PIDs that have a context)
    status,            \* _status
    sd_packet_count,   \* SectionDemux::_packet_count
    calls,             \* history: handler invocations made by the last operation
    last_op,           \* history: the last operation applied to the demux, with
                       \* the increments it made to the status counters
    \* ---- round trip ----
    rt_sections,       \* the sections of the table that was packetized
    rt_script,         \* the packets still to be fed
    rt_tables,         \* history: every table handed to the table handler
    \* ---- ScramblerPlugin (tsplugin_scrambler.cpp) ----
    opt,               \* the parameters, constant after start()
    sp,                \* the ScramblerPlugin state fields
    cp,                \* _cp[2], the two crypto-period slots (cp[i + 1] is _cp[i])
    ecmg,              \* the ECMG: requests not answered yet, and the position of
                       \* the callback thread in handleECM
    sp_pc,             \* the position of the plugin thread in processPacket
    sp_pkt,            \* the packet being processed by the plugin thread
    sp_out,            \* the result of the last processPacket
    sp_hist            \* history: what the last step did

sdVars == <<section_handler, table_handler, handler_act, handler_at, pid_filter, pids, status,
            sd_packet_count, calls, last_op>>
rtVars == <<rt_sections, rt_script, rt_tables>>
spVars == <<opt, sp, cp, ecmg, sp_pc, sp_pkt, sp_out, sp_hist>>
vars == <<sdVars, rtVars, spVars>>

\* No scrambler plugin is started.
InitNoScrambler ==
    /\ opt = <<>>
    /\ sp = <<>>
    /\ cp = <<>>
    /\ ecmg = <<>>
    /\ sp_pc = "none"
    /\ sp_pkt = <<>>
    /\ sp_out = <<>>
    /\ sp_hist = <<>>

(***************************************************************************)
(* MPEG constants used by the demux.                                       *)
(***************************************************************************)
PKT_SIZE == 188
CC_MAX == 16
SHORT_SECTION_HEADER_SIZE == 3
MIN_SHORT_SECTION_SIZE == 3
MIN_LONG_SECTION_SIZE == 12
MAX_PRIVATE_SECTION_SIZE == 4096

(***************************************************************************)
(* Bounds of the model.                                                    *)
(***************************************************************************)
MaxFeeds == 2
MaxPayload == 16

(***************************************************************************)
(* Byte helpers.                                                           *)
(***************************************************************************)
GetUInt16(b, i) == b[i] * 256 + b[i + 1]

EmptyMap == [x \in {} |-> 0]

Put(m, k, v) == [x \in (DOMAIN m) \cup {k} |-> IF x = k THEN v ELSE m[x]]

Remove(m, k) == [x \in (DOMAIN m) \ {k} |-> m[x]]

Drop(s, n) == SubSeq(s, n + 1, Len(s))

Take(s, n) == SubSeq(s, 1, n)

\* The CRC32 of a byte sequence: a 32-bit checksum of all its bytes, kept
\* as two 16-bit halves.
RECURSIVE CrcFold(_, _, _, _)
CrcFold(b, i, hi, lo) ==
    IF i > Len(b) THEN <<hi, lo>>
    ELSE LET lo2 == (lo * 33 + b[i] + 1) % 65536
         IN  CrcFold(b, i + 1, (hi * 31 + lo2) % 65536, lo2)

\* The CRC32 as four bytes (big endian), as stored at the end of a section.
CRC32(b) ==
    LET c == CrcFold(b, 1, 65535, 65535)
    IN  << c[1] \div 256, c[1] % 256, c[2] \div 256, c[2] % 256 >>

\* Section::isValid() for a Section built with CRC32::CHECK from `b`.
SectionIsValid(b) ==
    LET long == b[2] >= 128
    IN  /\ Len(b) >= MIN_SHORT_SECTION_SIZE
        /\ Len(b) = (GetUInt16(b, 2) % 4096) + SHORT_SECTION_HEADER_SIZE
        /\ long => /\ Len(b) >= MIN_LONG_SECTION_SIZE
                   /\ Drop(b, Len(b) - 4) = CRC32(Take(b, Len(b) - 4))

(***************************************************************************)
(* PID contexts and ETID contexts.                                         *)
(***************************************************************************)
\* PIDContext(): no synchronization, nothing buffered.
\* g_org, g_await and g_resync are history fields. g_org[i] tells where byte i
\* of ts comes from: pkt = index of the packet that brought it, ptr = it is
\* the byte designated by the pointer field of that packet, before = it lies
\* before that byte in the payload, cc = continuity counter of that packet,
\* seq = value of g_seq when it came. g_seq = number of packets on the PID
\* which have reached line 227. g_await = syncLost() was called and no
\* section has been handed to a handler since. g_resync = index of the
\* packet at which synchronization was last acquired.
NewPIDContext ==
    [sync |-> FALSE, continuity |-> 0, ts |-> <<>>, pusi_pkt_index |-> 0,
     tids |-> EmptyMap, g_org |-> <<>>, g_await |-> FALSE, g_resync |-> 0,
     g_seq |-> 0]

\* Mutant: the synchronization is dropped and the buffer is kept.
SyncLost_KeepBuffer(pc) == [pc EXCEPT !.sync = FALSE, !.g_await = TRUE]

\* Mutant: the buffer is dropped and the PID stays synchronized.
SyncLost_KeepSync(pc) == [pc EXCEPT !.ts = <<>>, !.g_org = <<>>, !.g_await = TRUE]

\* PIDContext::syncLost()
SyncLost(pc) == [pc EXCEPT !.sync = FALSE, !.ts = <<>>, !.g_org = <<>>, !.g_await = TRUE]

\* History: the number of complete long sections with a wrong CRC32 which
\* have passed the checks of length, index and current/next (n), and of those
\* whose slot in the table was already filled (filled).
NoBadCrc == [n |-> 0, filled |-> 0, rejected |-> {}]

\* History: the bytes whose origins are orgs come in the order of the packets
\* and the continuity counter has moved by one for each packet of the PID
\* between them.
InContinuity(orgs) ==
    \A i, j \in DOMAIN orgs :
        i < j => /\ orgs[i].seq <= orgs[j].seq
                 /\ (orgs[j].cc - orgs[i].cc + CC_MAX) % CC_MAX
                        = (orgs[j].seq - orgs[i].seq) % CC_MAX

\* History of a call of syncLost() while processPacket works on w.
Lost(w, why) == [w EXCEPT !.g_lost = @ \cup {why}]
LostIf(lost, why, w) == IF lost THEN Lost(w, why) ELSE w

\* ETIDContext()
NewETIDContext == [version |-> 0, sect_expected |-> 0, sect_received |-> 0, sects |-> <<>>]

\* ETID(tid) for a short section, ETID(tid, tid_ext) for a long one.
ETID(tid, tid_ext) == <<tid, tid_ext>>

\* A null SectionPtr.
NullSection == [data |-> <<>>, first |-> 0, last |-> 0]

StatusZero ==
    [invalid_ts |-> 0, discontinuities |-> 0, scrambled |-> 0,
     inv_sect_length |-> 0, inv_sect_index |-> 0, wrong_crc |-> 0]

\* Mutant: the counter is incremented twice.
Bump_Twice(st, f) == [st EXCEPT ![f] = @ + 2]

\* _status.<counter>++
Bump(st, f) == [st EXCEPT ![f] = @ + 1]

\* Mutant: only the first PID context is erased.
ImmediateReset_First(p) ==
    IF DOMAIN p = {} THEN p
    ELSE Remove(p, CHOOSE k \in DOMAIN p : \A j \in DOMAIN p : k <= j)

\* SectionDemux::immediateReset
ImmediateReset(p) == EmptyMap

\* SectionDemux::immediateResetPID
ImmediateResetPID(p, pid) == Remove(p, pid)

(***************************************************************************)
(* SectionDemux::processPacket, lines 187-499.                             *)
(*                                                                         *)
(* A packet is a record                                                    *)
(*   [sync, pid, pusi, scr, cc, has_payload, header_size, payload]         *)
(* where payload = b[header_size .. PKT_SIZE-1] (the adaptation field makes *)
(* header_size anything from 4 to PKT_SIZE).                               *)
(*                                                                         *)
(* What the handlers do is h = [act, at]: the at-th handler invocation of  *)
(* a feedPacket calls reset() (act = "reset"), resetPID(pid of the packet) *)
(* (act = "reset_pid") or nothing ("none").                                *)
(***************************************************************************)

\* Mutant: no packet is taken as a duplicate.
IsDuplicate_Never(pc, pkt) == FALSE

\* Mutant: no packet is taken as a discontinuity.
IsDiscontinuity_Never(pc, pkt) == FALSE

\* Line 217: duplicate packet.
IsDuplicate(pc, pkt) == pc.sync /\ pkt.cc = pc.continuity

\* Line 221: discontinuity.
IsDiscontinuity(pc, pkt) == pc.sync /\ pkt.cc # (pc.continuity + 1) % CC_MAX

\* Mutant: no packet is taken as the start of a PES packet.
IsPES_Never(pkt) == FALSE

\* Lines 249-252: PES start code prefix at the start of the payload.
IsPES(pkt) ==
    /\ pkt.header_size + 3 <= PKT_SIZE
    /\ pkt.payload[1] = 0
    /\ pkt.payload[2] = 0
    /\ pkt.payload[3] = 1

\* Line 262: inconsistent pointer field.
BadPointerField(pointer_field, payload_size) == pointer_field >= payload_size

\* Mutant: the end of the previous section is not skipped.
ResyncPayload_NoSkip(payload, pointer_field) == payload

\* Lines 289-290: skip the end of the previous section.
ResyncPayload(payload, pointer_field) == Drop(payload, pointer_field)

\* Lines 333-335: invalid section length.
InvalidSectionLength(section_length, long_header) ==
    \/ section_length > MAX_PRIVATE_SECTION_SIZE
    \/ section_length < MIN_SHORT_SECTION_SIZE
    \/ (long_header /\ section_length < MIN_LONG_SECTION_SIZE)

\* Mutant: a section that ends exactly where the PUSI section starts is
\* taken as truncated.
IsTruncated_OffByOne(ts_start, section_length, psec) ==
    psec >= 0 /\ ts_start < psec /\ ts_start + section_length >= psec

\* Line 350: the section is truncated by the section that the PUSI announces.
\* psec is the offset of pusi_section in the buffer, -1 for a null pointer.
IsTruncated(ts_start, section_length, psec) ==
    psec >= 0 /\ ts_start < psec /\ ts_start + section_length > psec

\* Line 370: section number out of range.
BadSectionNumber(section_number, last_section_number) ==
    section_number > last_section_number

\* Mutant: every section is taken as a new version of its table.
IsNewVersion_Always(tc, long_header, version) == TRUE

\* Lines 395-397: the ETID context must be reset.
IsNewVersion(tc, long_header, version) ==
    \/ ~long_header
    \/ tc.sect_expected = 0
    \/ tc.version # version

\* Lines 399-406: reset of the ETID context.
ResetETIDContext(version, last_section_number) ==
    [version |-> version,
     sect_expected |-> last_section_number + 1,
     sect_received |-> 0,
     sects |-> [i \in 1 .. (last_section_number + 1) |-> NullSection]]

\* Line 412: the number of sections of the table has changed.
BadLastSectionNumber(tc, last_section_number) ==
    last_section_number # tc.sect_expected - 1

\* Mutant: a Section object is built for a new section only.
SectionCreated_OnlyNew(tc, section_number) == tc.sects[section_number + 1] = NullSection

\* Line 422: a Section object is built (and its CRC checked).
SectionCreated(tc, section_number) ==
    section_handler \/ tc.sects[section_number + 1] = NullSection

\* Mutant: the validity of the Section that was built is not looked at.
WrongCrc_Unchecked(created, bytes) == FALSE

\* Lines 426-429: the Section that was built is invalid.
WrongCrc(created, bytes) == created /\ ~SectionIsValid(bytes)

\* Line 438: the section handler is invoked.
CallSectionHandler(section_ok) == section_ok /\ section_handler

\* Line 443: the section is stored.
StoreSection(section_ok, tc, section_number) ==
    section_ok /\ tc.sects[section_number + 1] = NullSection

\* Mutant: the table is built as soon as a section is stored.
CallTableHandler_Incomplete(stored, tc) == stored /\ table_handler

\* Line 450: the table handler is invoked.
CallTableHandler(stored, tc) ==
    stored /\ tc.sect_received = tc.sect_expected /\ table_handler

\* AbstractDemux::afterCallingHandler(true): the delayed reset operations
\* are executed; the result tells that the PID context is gone.
AfterCallingHandler(p, pid, req) ==
    CASE req = "reset_pid" -> [pids |-> ImmediateResetPID(p, pid), gone |-> TRUE]
      [] req = "reset"     -> [pids |-> ImmediateReset(p), gone |-> TRUE]
      [] OTHER             -> [pids |-> p, gone |-> FALSE]

\* Mutant: the result of afterCallingHandler is ignored.
HonourReset_Ignored(gone) == FALSE

\* Lines 467-469: the loop honours the result of afterCallingHandler.
HonourReset(gone) == gone

\* Mutant: the stuffing which follows a section is kept.
Advance_KeepStuffing(w, pid, section_length) ==
    [w EXCEPT !.ts_start = w.ts_start + section_length,
              !.ts_size = w.ts_size - section_length,
              !.pusi_pkt_index = sd_packet_count]

\* Lines 472-485: move to the next section in the buffer.
\* The buffer itself is pc.ts; ts_start is an offset in it.
Advance(w, pid, section_length) ==
    LET ts == w.pids[pid].ts
        start == w.ts_start + section_length
        size == w.ts_size - section_length
    IN  [w EXCEPT !.ts_start = start,
                  !.ts_size = IF size > 0 /\ ts[start + 1] = 255 THEN 0 ELSE size,
                  !.pusi_pkt_index = sd_packet_count]

\* Lines 382-470: a complete and acceptable section is in the buffer.
HandleSection(w, pid, h, etid, long_header, version, section_number, last_section_number, section_length) ==
    LET pc == w.pids[pid]
        o == w.ts_start
        tc0 == IF etid \in DOMAIN pc.tids THEN pc.tids[etid] ELSE NewETIDContext
        tc1 == IF IsNewVersion(tc0, long_header, version)
               THEN ResetETIDContext(version, last_section_number)
               ELSE tc0
        badidx == BadLastSectionNumber(tc1, last_section_number)
        st1 == IF badidx THEN Bump(w.status, "inv_sect_index") ELSE w.status
        bytes == SubSeq(pc.ts, o + 1, o + section_length)
        created == ~badidx /\ SectionCreated(tc1, section_number)
        badcrc == WrongCrc(created, bytes)
        st2 == IF badcrc THEN Bump(st1, "wrong_crc") ELSE st1
        section_ok == ~badidx /\ ~badcrc
        sect == [data |-> bytes, first |-> w.pusi_pkt_index, last |-> sd_packet_count]
        \* section handler
        callS == CallSectionHandler(section_ok)
        nS == Len(w.calls) + 1
        reqS == IF callS /\ h.at = nS THEN h.act ELSE "none"
        calls1 == IF callS
                  THEN Append(w.calls,
                              [kind |-> "section", pid |-> pid, etid |-> etid,
                               sects |-> <<sect>>, expected |-> tc1.sect_expected,
                               g_req |-> reqS, g_pending |-> "none",
                               g_first |-> pc.g_org[o + 1],
                               g_chain |-> InContinuity(SubSeq(pc.g_org, o + 1, o + section_length)),
                               g_await |-> pc.g_await, g_resync |-> pc.g_resync,
                               g_tc |-> tc0])
                  ELSE w.calls
        \* store the section, table handler
        stored == StoreSection(section_ok, tc1, section_number)
        tc2 == IF stored
               THEN [tc1 EXCEPT !.sects[section_number + 1] = sect,
                                !.sect_received = @ + 1]
               ELSE tc1
        callT == CallTableHandler(stored, tc2)
        nT == Len(calls1) + 1
        reqT == IF callT /\ h.at = nT THEN h.act ELSE "none"
        calls2 == IF callT
                  THEN Append(calls1,
                              [kind |-> "table", pid |-> pid, etid |-> etid,
                               sects |-> tc2.sects, expected |-> tc2.sect_expected,
                               g_req |-> reqT, g_pending |-> reqS,
                               g_first |-> pc.g_org[o + 1],
                               g_chain |-> InContinuity(SubSeq(pc.g_org, o + 1, o + section_length)),
                               g_await |-> pc.g_await /\ ~callS, g_resync |-> pc.g_resync,
                               g_tc |-> tc0])
                  ELSE calls1
        req == IF reqS # "none" THEN reqS ELSE reqT
        pc2 == [pc EXCEPT !.tids = Put(pc.tids, etid, tc2),
                          !.g_await = @ /\ ~callS /\ ~callT]
        after == AfterCallingHandler(Put(w.pids, pid, pc2), pid, req)
        bad == ~badidx /\ long_header /\ ~SectionIsValid(bytes)
        filled == tc1.sects[section_number + 1] # NullSection
        w2 == [w EXCEPT !.pids = after.pids, !.status = st2, !.calls = calls2,
                        !.g_write_after_req = @ \/ (reqS # "none" /\ stored),
                        !.g_bad = [n |-> @.n + (IF bad THEN 1 ELSE 0),
                                   filled |-> @.filled + (IF bad /\ filled THEN 1 ELSE 0),
                                   rejected |-> @.rejected \cup (IF badcrc THEN {etid} ELSE {})]]
    IN  IF HonourReset(after.gone)
        THEN [w2 EXCEPT !.ret = TRUE]
        ELSE IF after.gone
        THEN \* the context was destroyed and the loop goes on with a dangling
             \* reference: a fresh context stands for what the loop then sees
             Advance([w2 EXCEPT !.pids = Put(after.pids, pid, [NewPIDContext EXCEPT !.ts = pc.ts, !.g_org = pc.g_org, !.sync = TRUE]),
                                !.g_dangling = TRUE], pid, section_length)
        ELSE Advance(w2, pid, section_length)

\* Mutant: no section is taken as a 'next' section.
IsNext_Never(b5) == FALSE

\* Line 367: the current_next_indicator of a long section, in its sixth byte.
IsNext(b5) == b5 % 2 = 0

\* Lines 348-485: one complete section is in the buffer at ts_start.
SectionStep(w, pid, h, psec, long_header, len0) ==
    LET ts == w.pids[pid].ts
        o == w.ts_start
        tid == ts[o + 1]
        trunc == IsTruncated(o, len0, psec)
        section_length == IF trunc THEN psec - o ELSE len0
        parse == ~trunc /\ long_header
        etid == IF parse THEN ETID(tid, GetUInt16(ts, o + 4)) ELSE ETID(tid, 0)
        version == IF parse THEN (ts[o + 6] \div 2) % 32 ELSE 0
        is_next == parse /\ IsNext(ts[o + 6])
        section_number == IF parse THEN ts[o + 7] ELSE 0
        last_section_number == IF parse THEN ts[o + 8] ELSE 0
        badnum == parse /\ BadSectionNumber(section_number, last_section_number)
        st1 == IF badnum THEN Bump(w.status, "inv_sect_index") ELSE w.status
        section_ok == ~trunc /\ ~badnum /\ ~is_next
    IN  IF section_ok
        THEN HandleSection(w, pid, h, etid, long_header, version, section_number,
                           last_section_number, section_length)
        ELSE Advance([w EXCEPT !.status = st1,
                               !.g_next = IF is_next
                                          THEN Append(@, [etid |-> etid, bad |-> badnum])
                                          ELSE @],
                     pid, section_length)

\* Lines 321-486: loop on all complete sections in the buffer.
RECURSIVE SectionLoop(_, _, _, _)

\* Line 321 and the returns of lines 451-464: after a section, the loop goes
\* on unless processPacket has returned.
NextSection(w, pid, h, psec) == IF w.ret THEN w ELSE SectionLoop(w, pid, h, psec)

SectionLoop(w, pid, h, psec) ==
    IF w.ts_size < 3 THEN w
    ELSE
      LET pc == w.pids[pid]
          raw == GetUInt16(pc.ts, w.ts_start + 2)
          long_header == raw >= 32768
          len0 == (raw % 4096) + SHORT_SECTION_HEADER_SIZE
      IN  IF InvalidSectionLength(len0, long_header)
          THEN Lost([w EXCEPT !.status = Bump(w.status, "inv_sect_length"),
                              !.pids = Put(w.pids, pid, SyncLost(pc)),
                              !.ret = TRUE], "length")
          ELSE IF w.ts_size < len0 THEN w
          ELSE NextSection(SectionStep(w, pid, h, psec, long_header, len0), pid, h, psec)

\* Lines 488-498: keep the incomplete section that remains in the buffer.
Cleanup(w, pid) ==
    IF w.ret THEN w
    ELSE LET pc == w.pids[pid]
             pc2 == IF w.ts_size <= 0
                    THEN [pc EXCEPT !.ts = <<>>, !.g_org = <<>>]
                    ELSE IF w.ts_start > 0
                    THEN [pc EXCEPT !.ts = Drop(@, w.ts_start),
                                    !.g_org = Drop(@, w.ts_start)]
                    ELSE pc
         IN  [w EXCEPT !.pids = Put(w.pids, pid, pc2)]

\* The state processPacket works on. g_lost and g_bad are history fields:
\* the reasons for which syncLost() was called while the packet was
\* processed, the long sections with a wrong CRC32 met and the 'next'
\* sections ignored at lines 380-382 (g_next: for each, its ETID and whether
\* its section number was counted as invalid).
Work(p, st) ==
    [pids |-> p, status |-> st, calls |-> <<>>, ret |-> FALSE,
     ts_start |-> 0, ts_size |-> 0, pusi_pkt_index |-> 0,
     g_write_after_req |-> FALSE, g_dangling |-> FALSE, g_lost |-> {},
     g_bad |-> NoBadCrc, g_next |-> <<>>]

Return(p, st) == [Work(p, st) EXCEPT !.ret = TRUE]

\* Lines 229-315: locate the payload, resynchronize, fill the buffer.
Intake(p, st, pid, pc, pkt, h) ==
    LET pusi == pkt.pusi
        pc1 == IF pusi THEN [pc EXCEPT !.pusi_pkt_index = sd_packet_count] ELSE pc
        pointer_field0 == IF pusi THEN pkt.payload[1] ELSE 255
        payload0 == IF pusi THEN Drop(pkt.payload, 1) ELSE pkt.payload
        payload_size0 == Len(payload0)
        pusi_pkt_index == IF pusi /\ pointer_field0 = 0 THEN sd_packet_count
                          ELSE pc.pusi_pkt_index
    IN  IF pusi /\ IsPES(pkt) THEN Lost(Return(Put(p, pid, SyncLost(pc1)), st), "pes")
        ELSE IF pusi /\ BadPointerField(pointer_field0, payload_size0)
        THEN Lost(Return(Put(p, pid, SyncLost(pc1)), st), "pointer")
        ELSE IF payload_size0 <= 0 THEN Return(Put(p, pid, pc1), st)
        ELSE IF ~pc1.sync /\ ~pusi THEN Return(Put(p, pid, pc1), st)
        ELSE
          LET resync == ~pc1.sync
              payload == IF resync THEN ResyncPayload(payload0, pointer_field0) ELSE payload0
              payload_size == Len(payload)
              pointer_field == IF resync THEN 0 ELSE pointer_field0
              skipped == payload_size0 - payload_size
              org == [i \in 1 .. payload_size |->
                        [pkt |-> sd_packet_count,
                         ptr |-> pusi /\ i + skipped = pointer_field0 + 1,
                         before |-> pusi /\ i + skipped <= pointer_field0,
                         cc |-> pkt.cc, seq |-> pc.g_seq]]
              pc2 == [pc1 EXCEPT !.sync = TRUE,
                                 !.ts = @ \o payload,
                                 !.g_org = @ \o org,
                                 !.g_resync = IF resync THEN sd_packet_count ELSE @]
              psec == IF pusi THEN Len(pc2.ts) - payload_size + pointer_field ELSE -1
              w0 == [Work(Put(p, pid, pc2), st) EXCEPT
                        !.ts_size = Len(pc2.ts), !.pusi_pkt_index = pusi_pkt_index]
          IN  Cleanup(SectionLoop(w0, pid, h, psec), pid)

\* SectionDemux::processPacket
ProcessPacket(p, st, pkt, h) ==
    IF ~pkt.sync THEN Return(p, Bump(st, "invalid_ts"))
    ELSE
      LET pid == pkt.pid
          pc0 == IF pid \in DOMAIN p THEN p[pid] ELSE NewPIDContext
      IN  IF pkt.scr # 0
          THEN Lost(Return(Put(p, pid, SyncLost(pc0)), Bump(st, "scrambled")), "scrambled")
          ELSE IF IsDuplicate(pc0, pkt) THEN Return(Put(p, pid, pc0), st)
          ELSE
            LET disc == IsDiscontinuity(pc0, pkt)
                st1 == IF disc THEN Bump(st, "discontinuities") ELSE st
                pc1 == [(IF disc THEN SyncLost(pc0) ELSE pc0) EXCEPT !.continuity = pkt.cc,
                                                                    !.g_seq = @ + 1]
            IN  LostIf(disc, "discontinuity",
                       IF ~pkt.has_payload \/ pkt.header_size >= PKT_SIZE
                       THEN Return(Put(p, pid, pc1), st1)
                       ELSE Intake(p, st1, pid, pc1, pkt, h))

(***************************************************************************)
(* The packets fed to the demux.                                           *)
(***************************************************************************)
PID_A == 256
PID_B == 257
PID_C == 258

\* A long section, with its CRC32.
LongSectionBody(tid, ext, version, current, secnum, last, payload) ==
    LET len == 5 + Len(payload) + 4
    IN  << tid, 128 + 48 + (len \div 256), len % 256, ext \div 256, ext % 256,
           192 + 2 * version + current, secnum, last >> \o payload

LongSection(tid, ext, version, current, secnum, last, payload) ==
    LET body == LongSectionBody(tid, ext, version, current, secnum, last, payload)
    IN  body \o CRC32(body)

\* The same section with a corrupted CRC32.
CorruptedSection(tid, ext, version, current, secnum, last, payload) ==
    LET body == LongSectionBody(tid, ext, version, current, secnum, last, payload)
        crc == CRC32(body)
    IN  body \o << crc[1], crc[2], crc[3], (crc[4] + 1) % 256 >>

\* A short section.
ShortSection(tid, payload) ==
    << tid, 48 + (Len(payload) \div 256), Len(payload) % 256 >> \o payload

S0v1 == LongSection(66, 1, 1, 1, 0, 1, <<>>)
S1v1 == LongSection(66, 1, 1, 1, 1, 1, <<170>>)
S0v2 == LongSection(66, 1, 2, 1, 0, 0, <<>>)
S1v2Bad == CorruptedSection(66, 1, 2, 1, 1, 1, <<>>)
S1v1Bad == CorruptedSection(66, 1, 1, 1, 1, 1, <<170>>)
S0Next == LongSection(66, 1, 3, 0, 0, 0, <<>>)
SNextBadNum == LongSection(66, 1, 3, 0, 2, 1, <<>>)
SBadNum == LongSection(66, 1, 1, 1, 2, 1, <<>>)
SBadLast == LongSection(66, 1, 1, 1, 0, 2, <<>>)
Sh40 == ShortSection(64, <<7>>)
Sh41 == ShortSection(65, <<>>)

MkPacket(pid, pusi, payload) ==
    [sync |-> TRUE, pid |-> pid, pusi |-> pusi, scr |-> 0, cc |-> 0,
     has_payload |-> TRUE, header_size |-> PKT_SIZE - Len(payload),
     payload |-> payload]

\* The payloads: <<PUSI, bytes of the payload (pointer field first when PUSI)>>.
Bodies ==
    [ one0      |-> <<TRUE,  <<0>> \o S0v1 \o <<255, 255>> >>,
      one1      |-> <<TRUE,  <<0>> \o S1v1 \o <<255>> >>,
      both      |-> <<TRUE,  <<0>> \o S0v1 \o S1v1 >>,
      newver    |-> <<TRUE,  <<0>> \o S0v2 \o <<255>> >>,
      badcrc    |-> <<TRUE,  <<0>> \o S1v2Bad \o Sh41 >>,
      badcrc1   |-> <<TRUE,  <<0>> \o S1v1Bad \o <<255>> >>,
      skip      |-> <<TRUE,  <<3>> \o Sh41 \o Sh40 \o <<255>> >>,
      next      |-> <<TRUE,  <<0>> \o S0Next \o Sh41 >>,
      nextbad   |-> <<TRUE,  <<0>> \o SNextBadNum \o Sh41 >>,
      badnum    |-> <<TRUE,  <<0>> \o SBadNum \o SBadNum >>,
      badlast   |-> <<TRUE,  <<0>> \o SBadLast \o <<255>> >>,
      shorts    |-> <<TRUE,  <<0>> \o Sh40 \o Sh41 \o <<255, 255>> >>,
      pes       |-> <<TRUE,  <<0, 0, 1, 224, 0, 0>> >>,
      head      |-> <<TRUE,  <<0>> \o Take(S0v1, 7) >>,
      tail      |-> <<FALSE, Drop(S0v1, 7) \o <<255>> >>,
      tailnew   |-> <<TRUE,  <<5>> \o Drop(S0v1, 7) \o S1v1 >>,
      trunc     |-> <<TRUE,  <<2, 9, 9>> \o Sh41 \o <<255>> >>,
      cut       |-> <<TRUE,  <<1, 9>> \o Sh41 >>,
      badlen    |-> <<TRUE,  <<0, 66, 128, 1, 0, 0>> >>,
      badptr    |-> <<TRUE,  <<9, 1, 2>> >> ]

BodyNames == DOMAIN Bodies

\* Continuity of the packet relative to the context of its PID:
\* the next counter, the same counter (duplicate), a jump (discontinuity).
CCModes == {"next", "dup", "jump"}

Stimuli ==
    [pid : {PID_A}, body : BodyNames, cc : {"next"}, kind : {"ok"}]
    \cup [pid : {PID_A}, body : {"one0"}, cc : {"dup"}, kind : {"ok"}]
    \cup [pid : {PID_A}, body : {"one0", "tail", "badlen"}, cc : {"jump"}, kind : {"ok"}]
    \cup [pid : {PID_B}, body : {"one1"}, cc : {"next"}, kind : {"ok"}]
    \cup [pid : {PID_C}, body : {"one0"}, cc : {"next"}, kind : {"ok"}]
    \cup [pid : {PID_A}, body : {"one0"}, cc : {"next"},
          kind : {"scrambled", "badsync", "nopayload"}]

\* The packet of a stimulus, given the PID contexts.
PacketOf(s, p) ==
    LET c == IF s.pid \in DOMAIN p THEN p[s.pid].continuity ELSE 0
        cc == CASE s.cc = "next" -> (c + 1) % CC_MAX
                [] s.cc = "dup"  -> c
                [] s.cc = "jump" -> (c + 2) % CC_MAX
        b == Bodies[s.body]
        pkt == [MkPacket(s.pid, b[1], b[2]) EXCEPT !.cc = cc]
    IN  CASE s.kind = "ok"        -> pkt
          [] s.kind = "scrambled" -> [pkt EXCEPT !.scr = 2]
          [] s.kind = "badsync"   -> [pkt EXCEPT !.sync = FALSE]
          [] s.kind = "nopayload" -> [pkt EXCEPT !.has_payload = FALSE]

(***************************************************************************)
(* SpecDemux: the operations of the demux.                                 *)
(***************************************************************************)
\* <<section handler registered, table handler registered, act, at>>
HandlerConfigs ==
    { <<TRUE, TRUE, "none", 1>>, <<TRUE, TRUE, "reset", 1>>,
      <<TRUE, TRUE, "reset_pid", 2>>, <<FALSE, TRUE, "none", 1>>,
      <<FALSE, TRUE, "reset_pid", 1>>, <<TRUE, FALSE, "none", 1>> }

InitRT ==
    /\ rt_sections = <<>>
    /\ rt_script = <<>>
    /\ rt_tables = <<>>

InitDemuxState ==
    /\ pid_filter = {PID_A, PID_B}
    /\ pids = EmptyMap
    /\ status = StatusZero
    /\ sd_packet_count = 0
    /\ calls = <<>>
    /\ last_op = [op |-> "init", pid |-> 0, g_write_after_req |-> FALSE,
                  g_incr |-> StatusZero, g_lost |-> {}, g_pusi |-> FALSE,
                   g_kind |-> "none", g_before |-> {}, g_trunc |-> "none",
                   g_secs |-> <<>>, g_bad |-> NoBadCrc, g_cc |-> "none",
                   g_next |-> <<>>]

InitDemux ==
    /\ \E c \in HandlerConfigs :
          /\ section_handler = c[1]
          /\ table_handler = c[2]
          /\ handler_act = c[3]
          /\ handler_at = c[4]
    /\ InitDemuxState
    /\ InitRT
    /\ InitNoScrambler

\* History: what kind of packet is fed, given the PID contexts p. "other": a
\* packet without sync byte, scrambled, without payload, or dropped as a
\* duplicate; "nopusi": no PUSI; "pes": PUSI and a payload which starts with
\* 00 00 01; "legal": PUSI and a pointer field smaller than the size of the
\* payload which follows it; "badptr": PUSI and any other pointer field.
PacketKind(pkt, p) ==
    IF \/ ~pkt.sync
       \/ pkt.scr # 0
       \/ ~pkt.has_payload
       \/ pkt.payload = <<>>
       \/ (pkt.pid \in DOMAIN p /\ IsDuplicate(p[pkt.pid], pkt))
    THEN "other"
    ELSE IF ~pkt.pusi THEN "nopusi"
    ELSE IF Len(pkt.payload) >= 3 /\ SubSeq(pkt.payload, 1, 3) = <<0, 0, 1>> THEN "pes"
    ELSE IF pkt.payload[1] < Len(pkt.payload) - 1 THEN "legal"
    ELSE "badptr"

\* The section which starts at the beginning of b can be delivered: it is
\* complete, valid and, when it is a long one, current and well numbered.
Deliverable(b) ==
    /\ Len(b) >= MIN_SHORT_SECTION_SIZE
    /\ LET len == (GetUInt16(b, 2) % 4096) + SHORT_SECTION_HEADER_SIZE
       IN  /\ len <= Len(b)
           /\ SectionIsValid(Take(b, len))
           /\ b[2] >= 128 => (b[6] % 2 = 1 /\ b[7] <= b[8])

\* History: does the packet truncate the section in reassembly on its PID?
\* That is: the PID is synchronized, its buffer holds the header of a
\* section, the packet follows in continuity with PUSI and a pointer field
\* which designates a byte strictly inside that section, where a deliverable
\* section starts. "fits": the buffer with the payload of the packet is at
\* least as long as the truncated section claims to be; "short": it is not.
TruncationOf(pkt, p) ==
    IF \/ PacketKind(pkt, p) # "legal"
       \/ pkt.pid \notin DOMAIN p
    THEN "none"
    ELSE LET pc == p[pkt.pid]
             data == Drop(pkt.payload, 1)
             psec == Len(pc.ts) + pkt.payload[1]
             claimed == (GetUInt16(pc.ts, 2) % 4096) + SHORT_SECTION_HEADER_SIZE
         IN  IF \/ ~pc.sync
                \/ pkt.cc # (pc.continuity + 1) % CC_MAX
                \/ Len(pc.ts) < SHORT_SECTION_HEADER_SIZE
             THEN "none"
             ELSE IF psec < claimed /\ Deliverable(Drop(data, pkt.payload[1]))
             THEN IF Len(pc.ts) + Len(data) >= claimed THEN "fits" ELSE "short"
             ELSE "none"

\* The deliverable sections which b is made of, back to back, up to its end
\* or to a byte 0xFF; ok is false when b is not made this way.
RECURSIVE SplitSections(_)
SplitSections(b) ==
    IF b = <<>> \/ b[1] = 255 THEN [ok |-> TRUE, secs |-> <<>>]
    ELSE IF ~Deliverable(b) THEN [ok |-> FALSE, secs |-> <<>>]
    ELSE LET len == (GetUInt16(b, 2) % 4096) + SHORT_SECTION_HEADER_SIZE
             r == SplitSections(Drop(b, len))
         IN  [ok |-> r.ok, secs |-> <<Take(b, len)>> \o r.secs]

\* History: the sections of a packet whose payload is made of complete
\* sections and stuffing, on a PID which has nothing in its buffer; empty for
\* any other packet.
WholeSections(pkt, p) ==
    IF /\ PacketKind(pkt, p) = "legal"
       /\ pkt.payload[1] = 0
       /\ pkt.pid \in DOMAIN p => (p[pkt.pid].ts = <<>> \/ ~p[pkt.pid].sync)
    THEN LET r == SplitSections(Drop(pkt.payload, 1))
         IN  IF r.ok THEN r.secs ELSE <<>>
    ELSE <<>>

\* History: how the continuity counter of the packet relates to the one kept
\* for its PID in the contexts p (lines 212-227). "none": the packet does not
\* reach the test (no sync byte, scrambled) or the PID is not synchronized.
CCRelation(pkt, p) ==
    IF ~pkt.sync \/ pkt.scr # 0 \/ pkt.pid \notin DOMAIN p THEN "none"
    ELSE IF ~p[pkt.pid].sync THEN "none"
    ELSE IF pkt.cc = p[pkt.pid].continuity THEN "same"
    ELSE IF pkt.cc = (p[pkt.pid].continuity + 1) % CC_MAX THEN "next"
    ELSE "jump"

\* Lines 179-185: what feedPacket leaves, r being what processPacket would
\* leave and filtered telling whether processPacket is called.
FeedPacketResult(pkt, filtered, r) ==
    /\ IF filtered
       THEN /\ pids' = r.pids
            /\ status' = r.status
            /\ calls' = r.calls
            /\ last_op' = [op |-> "feed", pid |-> pkt.pid,
                           g_write_after_req |-> r.g_write_after_req,
                           g_incr |-> [f \in DOMAIN status |-> r.status[f] - status[f]],
                           g_lost |-> r.g_lost, g_pusi |-> pkt.pusi,
                           g_kind |-> PacketKind(pkt, pids), g_before |-> last_op.g_lost,
                           g_trunc |-> TruncationOf(pkt, pids),
                           g_secs |-> WholeSections(pkt, pids), g_bad |-> r.g_bad,
                           g_cc |-> CCRelation(pkt, pids), g_next |-> r.g_next]
       ELSE /\ UNCHANGED <<pids, status>>
            /\ calls' = <<>>
            /\ last_op' = [op |-> "feed", pid |-> pkt.pid,
                           g_write_after_req |-> FALSE, g_incr |-> StatusZero,
                           g_lost |-> {}, g_pusi |-> pkt.pusi,
                           g_kind |-> PacketKind(pkt, pids), g_before |-> last_op.g_lost,
                           g_trunc |-> TruncationOf(pkt, pids),
                           g_secs |-> WholeSections(pkt, pids), g_bad |-> NoBadCrc,
                           g_cc |-> CCRelation(pkt, pids), g_next |-> <<>>]
    /\ sd_packet_count' = sd_packet_count + 1
    /\ UNCHANGED <<section_handler, table_handler, handler_act, handler_at, pid_filter>>

\* Mutant: the PID filter is not consulted.
FeedPacketStep_Unfiltered(pkt) ==
    FeedPacketResult(pkt, TRUE,
        ProcessPacket(pids, status, pkt, [act |-> handler_act, at |-> handler_at]))

\* SectionDemux::feedPacket, lines 179-185.
FeedPacketStep(pkt) ==
    FeedPacketResult(pkt, pkt.pid \in pid_filter,
        ProcessPacket(pids, status, pkt, [act |-> handler_act, at |-> handler_at]))

FeedPacket ==
    /\ sd_packet_count < MaxFeeds
    /\ \E s \in Stimuli : FeedPacketStep(PacketOf(s, pids))
    /\ UNCHANGED <<rtVars, spVars>>

\* AbstractDemux::reset(), called outside of any handler.
Reset ==
    /\ pids' = ImmediateReset(pids)
    /\ calls' = <<>>
    /\ last_op' = [op |-> "reset", pid |-> 0, g_write_after_req |-> FALSE,
                   g_incr |-> StatusZero, g_lost |-> {}, g_pusi |-> FALSE,
                   g_kind |-> "none", g_before |-> {}, g_trunc |-> "none",
                   g_secs |-> <<>>, g_bad |-> NoBadCrc, g_cc |-> "none",
                   g_next |-> <<>>]
    /\ UNCHANGED <<section_handler, table_handler, handler_act, handler_at, pid_filter,
                   status, sd_packet_count>>
    /\ UNCHANGED <<rtVars, spVars>>

\* AbstractDemux::resetPID(pid), called outside of any handler.
ResetPID ==
    /\ \E pid \in {PID_A, PID_B} :
          /\ pids' = ImmediateResetPID(pids, pid)
          /\ last_op' = [op |-> "reset_pid", pid |-> pid, g_write_after_req |-> FALSE,
                         g_incr |-> StatusZero, g_lost |-> {}, g_pusi |-> FALSE,
                   g_kind |-> "none", g_before |-> {}, g_trunc |-> "none",
                   g_secs |-> <<>>, g_bad |-> NoBadCrc, g_cc |-> "none",
                   g_next |-> <<>>]
    /\ calls' = <<>>
    /\ UNCHANGED <<section_handler, table_handler, handler_act, handler_at, pid_filter,
                   status, sd_packet_count>>
    /\ UNCHANGED <<rtVars, spVars>>

NextDemux == FeedPacket \/ Reset \/ ResetPID

SpecDemux == InitDemux /\ [][NextDemux]_vars

(***************************************************************************)
(* SpecRoundTrip: one table is packetized into a legal TS on PID_A and the *)
(* packets are fed in order to a new demux.                                *)
(***************************************************************************)
Stuffing(n) == [i \in 1 .. n |-> 255]

\* Sections placed in `room` bytes: the first one always starts here, the
\* next ones follow in the same packet only when sections are packed.
RECURSIVE FillSections(_, _, _, _)
FillSections(secs, room, pack, first) ==
    IF secs = <<>> \/ room = 0 \/ (~first /\ ~pack)
    THEN [bytes |-> <<>>, rem |-> <<>>, used |-> 0]
    ELSE LET s == Head(secs)
         IN  IF Len(s) > room
             THEN [bytes |-> Take(s, room), rem |-> Drop(s, room), used |-> 1]
             ELSE LET r == FillSections(Tail(secs), room - Len(s), pack, FALSE)
                  IN  [bytes |-> s \o r.bytes, rem |-> r.rem, used |-> 1 + r.used]

\* The payloads of the packets that carry `secs`, `rem` being the end of a
\* section that started in a previous packet; n is the payload size.
\* PUSI is set, and a pointer field present, when a section starts in the packet.
RECURSIVE Packetize(_, _, _, _)
Packetize(rem, secs, n, pack) ==
    IF rem = <<>> /\ secs = <<>> THEN <<>>
    ELSE
      LET starts == secs # <<>> /\ (rem = <<>> \/ (pack /\ Len(rem) <= n - 2))
          room == IF starts THEN n - 1 ELSE n
          end == Take(rem, IF Len(rem) < room THEN Len(rem) ELSE room)
          f == IF starts THEN FillSections(secs, room - Len(end), pack, TRUE)
               ELSE [bytes |-> <<>>, rem |-> <<>>, used |-> 0]
          data == end \o f.bytes
          payload == (IF starts THEN <<Len(end)>> ELSE <<>>) \o data
                         \o Stuffing(room - Len(data))
          rem2 == IF Len(rem) > room THEN Drop(rem, room) ELSE f.rem
      IN  << <<starts, payload>> >> \o Packetize(rem2, Drop(secs, f.used), n, pack)

\* The TS packets of a packetization, continuity counters starting at cc0.
ScriptOf(secs, n, pack, cc0) ==
    LET pl == Packetize(<<>>, secs, n, pack)
    IN  [i \in 1 .. Len(pl) |->
            [MkPacket(PID_A, pl[i][1], pl[i][2]) EXCEPT !.cc = (cc0 + i - 1) % CC_MAX]]

RTTables ==
    { << S0v2 >>,
      << S0v1, S1v1 >>,
      << LongSection(0, 1, 0, 1, 0, 0, <<0, 1, 224, 32>>) >>,
      << LongSection(2, 5, 7, 1, 0, 2, <<>>),
         LongSection(2, 5, 7, 1, 1, 2, <<1, 2, 3>>),
         LongSection(2, 5, 7, 1, 2, 2, <<9>>) >> }

InitRoundTrip ==
    /\ section_handler \in BOOLEAN
    /\ table_handler = TRUE
    /\ handler_act = "none"
    /\ handler_at = 1
    /\ InitDemuxState
    /\ rt_sections \in RTTables
    /\ \E n \in 6 .. MaxPayload, pack \in BOOLEAN, cc0 \in {0, 14} :
          rt_script = ScriptOf(rt_sections, n, pack, cc0)
    /\ rt_tables = <<>>
    /\ InitNoScrambler

IsTableCall(c) == c.kind = "table"

FeedScript ==
    /\ rt_script # <<>>
    /\ FeedPacketStep(Head(rt_script))
    /\ rt_script' = Tail(rt_script)
    /\ rt_tables' = rt_tables \o SelectSeq(calls', IsTableCall)
    /\ UNCHANGED rt_sections
    /\ UNCHANGED spVars

NextRoundTrip == FeedScript

SpecRoundTrip == InitRoundTrip /\ [][NextRoundTrip]_vars

(***************************************************************************)
(* Properties of the demux.                                                *)
(***************************************************************************)
IsLong(b) == b[2] >= 128
SectionNumberOf(b) == IF IsLong(b) THEN b[7] ELSE 0
VersionOf(b) == IF IsLong(b) THEN (b[6] \div 2) % 32 ELSE 0
ETIDOf(b) == IF IsLong(b) THEN ETID(b[1], GetUInt16(b, 4)) ELSE ETID(b[1], 0)

Counters == {"invalid_ts", "discontinuities", "scrambled",
             "inv_sect_length", "inv_sect_index", "wrong_crc"}

RECURSIVE SumOver(_, _)
SumOver(f, S) ==
    IF S = {} THEN 0
    ELSE LET x == CHOOSE y \in S : TRUE IN f[x] + SumOver(f, S \ {x})

\* C3: no long section with a wrong CRC32 is handed to the section handler
\* or is part of a table handed to the table handler.
C3_NoBadCrcDelivered ==
    \A i \in 1 .. Len(calls) : \A j \in 1 .. Len(calls[i].sects) :
        LET b == calls[i].sects[j].data
        IN  (b # <<>> /\ IsLong(b)) => SectionIsValid(b)

\* C3 witness: one packet brought a long section with a wrong CRC32, which
\* was counted, and another section, which was delivered.
C3_Witness ==
    /\ last_op.op = "feed"
    /\ last_op.g_incr.wrong_crc = 1
    /\ Len(calls) > 0

\* C4: a table handed to the table handler of an ETID context that expects
\* k sections has k sections, numbered 0 .. k-1 in this order, all of the
\* same version and of the ETID of the context.
C4_TableComplete ==
    \A i \in 1 .. Len(calls) :
        calls[i].kind = "table" =>
            LET c == calls[i]
                k == c.expected
            IN  /\ k > 0
                /\ Len(c.sects) = k
                /\ \A j \in 1 .. k :
                      /\ c.sects[j] # NullSection
                      /\ SectionNumberOf(c.sects[j].data) = j - 1
                      /\ VersionOf(c.sects[j].data) = VersionOf(c.sects[1].data)
                      /\ ETIDOf(c.sects[j].data) = c.etid

\* C4 witness: a table of two sections was handed to the table handler.
C4_Witness ==
    \E i \in 1 .. Len(calls) : calls[i].kind = "table" /\ calls[i].expected = 2

\* C5 as claimed: one feedPacket increments the status counters by a total
\* of at most one.
C5_AtMostOneIncrement == SumOver(last_op.g_incr, Counters) <= 1

\* C5 amended: one feedPacket decrements no counter; it increments invalid_ts,
\* discontinuities, scrambled and inv_sect_length by at most one each; when it
\* increments invalid_ts or scrambled it increments nothing else; inv_sect_index
\* and wrong_crc are incremented once per rejected section, and the packet that
\* has a discontinuity is still parsed, so the total can exceed one.
C5_IncrementsPerPacket ==
    LET d == last_op.g_incr
    IN  /\ \A f \in Counters : d[f] >= 0
        /\ \A f \in {"invalid_ts", "discontinuities", "scrambled", "inv_sect_length"} :
              d[f] <= 1
        /\ (d.invalid_ts = 1 \/ d.scrambled = 1) => SumOver(d, Counters) = 1

\* C5 witness: one packet incremented two counters.
C5_Witness ==
    /\ last_op.op = "feed"
    /\ last_op.g_incr.discontinuities = 1
    /\ last_op.g_incr.inv_sect_length = 1

\* C6 as claimed: the first section handed to a handler after syncLost()
\* starts at the byte designated by the pointer field of a PUSI packet.
C6_StartsAtPointer ==
    \A i \in 1 .. Len(calls) : calls[i].g_await => calls[i].g_first.ptr

\* C6 amended: the first section handed to a handler after syncLost() lies
\* entirely in what was received from the byte designated by the pointer field
\* of the PUSI packet at which the PID was synchronized again: none of its
\* bytes was received before that packet, and none lies before the designated
\* byte of that packet. It need not start at a designated byte: it can follow
\* a rejected section, or start in a later packet.
C6_StartsAtOrAfterPointer ==
    \A i \in 1 .. Len(calls) :
        calls[i].g_await =>
            /\ calls[i].g_first.pkt >= calls[i].g_resync
            /\ (calls[i].g_first.pkt = calls[i].g_resync => ~calls[i].g_first.before)

\* C6 witness: after syncLost(), synchronization was acquired on a packet with
\* a non-zero pointer field and a section was handed to a handler.
C6_Witness ==
    \E i \in 1 .. Len(calls) :
        /\ calls[i].g_await
        /\ calls[i].g_first.ptr
        /\ calls[i].sects[1].data = Sh40

\* C8: reset() twice equals reset() once, and resetPID(p) for a PID without
\* context changes nothing.
C8_ResetIdempotent ==
    [][ /\ last_op'.op = "reset" =>
              /\ ImmediateReset(pids') = pids'
              /\ UNCHANGED <<status, sd_packet_count, pid_filter>>
        /\ (last_op'.op = "reset_pid" /\ last_op'.pid \notin DOMAIN pids) =>
              UNCHANGED <<pids, status, sd_packet_count, pid_filter>> ]_vars

\* C8 witness: reset() was called after two packets were fed without error.
C8_Witness ==
    /\ last_op.op = "reset"
    /\ pids = EmptyMap
    /\ sd_packet_count = 2
    /\ status = StatusZero

\* C9 as claimed: once a handler has called reset() or resetPID(pid), no other
\* handler is invoked in this feedPacket, the PID context is not accessed any
\* more and the PID has no context when feedPacket returns.
C9_AbandonAtOnce ==
    \A i \in 1 .. Len(calls) :
        calls[i].g_req # "none" =>
            /\ i = Len(calls)
            /\ ~last_op.g_write_after_req
            /\ last_op.pid \notin DOMAIN pids

\* C9 amended: the reset is delayed until the handlers of the current section
\* have returned: when the section handler calls reset() or resetPID(pid), the
\* section is still stored and the table handler is still invoked if the
\* section completes its table; after that no other handler is invoked in this
\* feedPacket and the PID has no context when feedPacket returns.
C9_AbandonAfterSection ==
    \A i \in 1 .. Len(calls) :
        calls[i].g_req # "none" =>
            /\ Len(calls) <= i + 1
            /\ Len(calls) = i + 1 =>
                  /\ calls[i].kind = "section"
                  /\ calls[i + 1].kind = "table"
                  /\ \E j \in 1 .. Len(calls[i + 1].sects) :
                        calls[i + 1].sects[j] = calls[i].sects[1]
            /\ last_op.pid \notin DOMAIN pids
            /\ calls[i].g_req = "reset" => pids = EmptyMap

\* C9 witness: the section handler called reset() and the table handler was
\* invoked after it, for the same section.
C9_Witness ==
    \E i \in 1 .. Len(calls) :
        /\ calls[i].g_req = "reset"
        /\ i < Len(calls)
        /\ last_op.pid \notin DOMAIN pids

(***************************************************************************)
(* Properties of the round trip.                                           *)
(***************************************************************************)
SectionData(t) == [i \in 1 .. Len(t) |-> t[i].data]

\* C7: when all the packets of the table have been fed, the table handler was
\* invoked exactly once, with the sections that were packetized, in order.
C7_RoundTrip ==
    rt_script = <<>> /\ rt_sections # <<>> =>
        /\ Len(rt_tables) = 1
        /\ SectionData(rt_tables[1].sects) = rt_sections

\* C7 witness: a table of three sections went through, in several packets.
C7_Witness ==
    /\ rt_script = <<>>
    /\ Len(rt_sections) = 3
    /\ Len(rt_tables) = 1
    /\ sd_packet_count >= 3

(***************************************************************************)
(* ScramblerPlugin (tsplugin_scrambler.cpp).                               *)
(*                                                                         *)
(* Two threads: the plugin thread runs processPacket, cut at the points    *)
(* where it reads what the other thread writes; the ECMG callback thread   *)
(* runs handleECM on a slot, one write at a time.                          *)
(***************************************************************************)
PID_PAT == 0
PID_NULL == 8191
PID_PMT == 256
PID_PMT_LOW == 16
PID_PMT_LAST == 8190
PID_VIDEO == 257
PID_DATA == 258
SC_EVEN_KEY == 2
SC_ODD_KEY == 3
TS_BITRATE == 3008
ECM_BITRATE == 1504
CP_DURATION == 1000
FIXED_CW == 0

\* Packets fed to the plugin, and packets fed before the PMT is processed.
MaxPackets == 6
MaxWait == 2

\* The values of delay_start that the ECMG returns in channel_status.
DelayStarts == {-800, 0, 800}

\* The number of TS packets of an ECM returned by the ECMG.
EcmSizes == {2}

Abs(x) == IF x < 0 THEN 0 - x ELSE x

\* PacketDistance(bitrate, duration): packets in `duration` milliseconds.
PacketDistance(bitrate, duration) == (bitrate * Abs(duration)) \div (1000 * PKT_SIZE * 8)

\* Mutant: the delay_start of the ECMG is taken as it is.
ClampDelayStart_None(d) == d

\* start(), lines 512-518: delay_start is kept within half a crypto-period.
ClampDelayStart(d) ==
    IF d > CP_DURATION \div 2 THEN CP_DURATION \div 2
    ELSE IF d < (0 - CP_DURATION) \div 2 THEN (0 - CP_DURATION) \div 2
    ELSE d

\* CryptoPeriod::CryptoPeriod(), lines 980-989.
NewCryptoPeriod ==
    [cp_number |-> 0, ecm_ok |-> FALSE,
     ecm |-> [size |-> 0, cp_number |-> 0, whole |-> TRUE],
     ecm_pkt_index |-> 0, cw_current |-> 0, cw_next |-> 0]

\* The callback thread is out of handleECM.
NoCallback == [slot |-> 0, cp_number |-> 0, size |-> 0, todo |-> <<>>, ok_done |-> TRUE]

\* Lines 207-210: indexes in cp of the current and next slots.
CurrentCW(s) == s.current_cw + 1
NextCW(s) == ((s.current_cw + 1) % 2) + 1
CurrentECM(s) == s.current_ecm + 1
NextECM(s) == ((s.current_ecm + 1) % 2) + 1

\* Line 136.
GetScramblingControlValue(slot) == IF slot.cp_number % 2 = 1 THEN SC_ODD_KEY ELSE SC_EVEN_KEY

\* Lines 1132-1136: load the control word of slot i in the scrambler.
InitScramblerKey(w, i) == [w EXCEPT !.sp.current_key = w.cp[i].cw_current]

\* Lines 1065-1099 run by the calling thread (synchronous mode).
HandleECMInline(w, i, env) ==
    IF ~env.valid
    THEN [w EXCEPT !.sp.abort = TRUE]
    ELSE [w EXCEPT !.cp[i].ecm = [size |-> env.size, cp_number |-> w.cp[i].cp_number,
                                  whole |-> TRUE],
                   !.cp[i].ecm_pkt_index = 0,
                   !.cp[i].ecm_ok = TRUE]

\* Lines 1024-1058. env.accepted: the ECMG takes the request.
GenerateECM(w, i, env) ==
    LET w1 == [w EXCEPT !.cp[i].ecm_ok = FALSE]
    IN  IF ~env.accepted
        THEN [w1 EXCEPT !.sp.abort = TRUE]
        ELSE IF opt.synchronous_ecmg
        THEN HandleECMInline(w1, i, env)
        ELSE [w1 EXCEPT !.ecmg.pending = @ \cup {[slot |-> i, cp_number |-> w1.cp[i].cp_number]}]

\* Lines 996-1003.
InitCycle(w, i, cp_number, env) ==
    GenerateECM([w EXCEPT !.cp[i].cp_number = cp_number,
                          !.cp[i].cw_current = w.sp.cw_gen + 1,
                          !.cp[i].cw_next = w.sp.cw_gen + 2,
                          !.sp.cw_gen = @ + 2], i, env)

\* Mutant: the crypto-period number wraps one too early, as if it were
\* reduced modulo 0xFFFF.
InitNext_WrapEarly(w, i, previous, env) ==
    GenerateECM([w EXCEPT !.cp[i].cp_number = (w.cp[previous].cp_number + 1) % 65535,
                          !.cp[i].cw_current = w.cp[previous].cw_next,
                          !.cp[i].cw_next = w.sp.cw_gen + 1,
                          !.sp.cw_gen = @ + 1], i, env)

\* Lines 1010-1017.
InitNext(w, i, previous, env) ==
    GenerateECM([w EXCEPT !.cp[i].cp_number = (w.cp[previous].cp_number + 1) % 65536,
                          !.cp[i].cw_current = w.cp[previous].cw_next,
                          !.cp[i].cw_next = w.sp.cw_gen + 1,
                          !.sp.cw_gen = @ + 1], i, env)

\* Mutant: degraded mode is entered whatever the state of the next ECM.
InDegradedMode_Always(w) == TRUE

\* Mutant: the degraded mode flag is not consulted.
InDegradedMode_Recheck(w) == ~w.cp[NextECM(w.sp)].ecm_ok

\* Lines 762-777: the value returned, which is also the new _degraded_mode.
InDegradedMode(w) == w.sp.degraded_mode \/ ~w.cp[NextECM(w.sp)].ecm_ok

\* Is a request for slot i not answered yet, or being written by handleECM?
Outstanding(w, i) ==
    \/ \E r \in w.ecmg.pending : r.slot = i
    \/ (w.ecmg.cb.slot = i /\ (w.ecmg.cb.todo # <<>> \/ ~w.ecmg.cb.ok_done))

\* History of a call of initNext on slot i.
NoteRearm(w, i) ==
    [w EXCEPT !.hist.rearm = i,
              !.hist.rearm_ok = w.cp[i].ecm_ok,
              !.hist.rearm_busy = Outstanding(w, i)]

\* Lines 831-833 and 846-848.
CatchUp(w, env) ==
    IF w.sp.current_ecm = w.sp.current_cw
    THEN InitNext(NoteRearm(w, NextCW(w.sp)), NextCW(w.sp), CurrentCW(w.sp), env)
    ELSE w

\* Mutant: the control word is changed and the clock is left where it was.
ChangeCW_KeepClock(w, env) ==
    LET d == InDegradedMode(w)
        w1 == [w EXCEPT !.sp.degraded_mode = d]
    IN  IF d THEN w1
        ELSE CatchUp(InitScramblerKey([w1 EXCEPT !.sp.current_cw = (@ + 1) % 2],
                                      NextCW(w1.sp)), env)

\* Lines 820-835.
ChangeCW(w, env) ==
    LET d == InDegradedMode(w)
        w1 == [w EXCEPT !.sp.degraded_mode = d]
    IN  IF d THEN w1
        ELSE LET w2 == [w1 EXCEPT !.sp.current_cw = (@ + 1) % 2]
                 w3 == InitScramblerKey(w2, CurrentCW(w2.sp))
                 w4 == [w3 EXCEPT !.sp.pkt_change_cw =
                            w3.sp.packet_count + PacketDistance(w3.sp.ts_bitrate, CP_DURATION)]
             IN  CatchUp(w4, env)

\* Lines 837-850.
ChangeECM(w, env) ==
    LET d == InDegradedMode(w)
        w1 == [w EXCEPT !.sp.degraded_mode = d]
    IN  IF d THEN w1
        ELSE LET w2 == [w1 EXCEPT !.sp.current_ecm = (@ + 1) % 2]
                 w3 == [w2 EXCEPT !.sp.pkt_change_ecm =
                            w2.sp.packet_count + PacketDistance(w2.sp.ts_bitrate, CP_DURATION)]
             IN  CatchUp(w3, env)

\* Mutant: degraded mode is never left.
TryExitDegradedMode_Never(w, env) == w

\* Mutant: degraded mode is left without any change of ECM or control word.
TryExitDegradedMode_FlagOnly(w, env) ==
    IF w.sp.degraded_mode /\ w.cp[NextECM(w.sp)].ecm_ok
    THEN [w EXCEPT !.sp.degraded_mode = FALSE, !.hist.exit = TRUE]
    ELSE w

\* Lines 784-813.
TryExitDegradedMode(w, env) ==
    IF ~w.sp.degraded_mode THEN w
    ELSE IF ~w.cp[NextECM(w.sp)].ecm_ok THEN w
    ELSE LET w1 == [w EXCEPT !.sp.degraded_mode = FALSE, !.hist.exit = TRUE]
         IN  IF opt.delay_start < 0
             THEN LET w2 == ChangeECM(w1, env)
                  IN  [w2 EXCEPT !.sp.pkt_change_cw =
                          w2.sp.packet_count + PacketDistance(w2.sp.ts_bitrate, opt.delay_start)]
             ELSE LET w2 == ChangeCW(w1, env)
                  IN  [w2 EXCEPT !.sp.pkt_change_ecm =
                          w2.sp.packet_count + PacketDistance(w2.sp.ts_bitrate, opt.delay_start)]

\* What getNextECMPacket read, when it read nothing.
NoRead == [slot |-> 0, overlap |-> FALSE, stale |-> FALSE, partial |-> FALSE, beyond |-> FALSE]

\* History of a step of the plugin thread (cw_toggles: how many times
\* _current_cw has changed since processPacket was called; alloc: processPMT
\* has allocated the ECM PID in this step; entry, first_cw, first_ecm: the
\* value of _packet_count when processPMT set the clocks, when _current_cw
\* first changed and when _current_ecm first changed, 0 before;
\* degraded_seen: degraded mode was entered at some point; eligible: the
\* number, modulo partial_scrambling, of packets which have reached the
\* partial scrambling of lines 948-957).
NewHist(op) ==
    [op |-> op, attempt |-> FALSE, was_degraded |-> FALSE, rearm |-> 0,
     rearm_ok |-> FALSE, rearm_busy |-> FALSE, exit |-> FALSE, read |-> NoRead,
     cw_toggles |-> 0, alloc |-> FALSE,
     entry |-> 0, first_cw |-> 0, first_ecm |-> 0, degraded_seen |-> FALSE,
     eligible |-> 0]

\* The packet returned by processPacket.
\* (key: the control word a scrambled packet was encrypted with; ecm_of: the
\* crypto-period of the ECM an ECM packet comes from.)
Out(st, kind, pid, cc, sc, ecm_of, key) ==
    [status |-> st, kind |-> kind, pid |-> pid, cc |-> cc, sc |-> sc, ecm_of |-> ecm_of,
     key |-> key]

NoOut == Out("none", "none", 0, 0, 0, 0, 0)

\* Mutant: the continuity counter also advances when no ECM packet is
\* returned.
GetNextECMPacket_AlwaysCount(w) ==
    LET i == CurrentECM(w.sp)
        slot == w.cp[i]
        idx == slot.ecm_pkt_index
    IN  IF ~slot.ecm_ok \/ slot.ecm.size = 0
        THEN [w EXCEPT !.sp.ecm_cc = (@ + 1) % CC_MAX,
                       !.out = Out("OK", "null", PID_NULL, 0, 0, 0, 0)]
        ELSE [w EXCEPT !.cp[i].ecm_pkt_index = IF idx + 1 >= slot.ecm.size THEN 0 ELSE idx + 1,
                       !.sp.ecm_cc = (@ + 1) % CC_MAX,
                       !.out = Out("OK", "ecm", w.sp.ecm_pid, w.sp.ecm_cc, 0, slot.ecm.cp_number, 0),
                       !.hist.read = [slot |-> i,
                                      overlap |-> w.ecmg.cb.slot = i /\ w.ecmg.cb.todo # <<>>,
                                      stale |-> slot.ecm.cp_number # slot.cp_number,
                                      partial |-> ~slot.ecm.whole,
                                      beyond |-> idx >= slot.ecm.size]]

\* Lines 1106-1125.
GetNextECMPacket(w) ==
    LET i == CurrentECM(w.sp)
        slot == w.cp[i]
        idx == slot.ecm_pkt_index
    IN  IF ~slot.ecm_ok \/ slot.ecm.size = 0
        THEN [w EXCEPT !.out = Out("OK", "null", PID_NULL, 0, 0, 0, 0)]
        ELSE [w EXCEPT !.cp[i].ecm_pkt_index = IF idx + 1 >= slot.ecm.size THEN 0 ELSE idx + 1,
                       !.sp.ecm_cc = (@ + 1) % CC_MAX,
                       !.out = Out("OK", "ecm", w.sp.ecm_pid, w.sp.ecm_cc, 0, slot.ecm.cp_number, 0),
                       !.hist.read = [slot |-> i,
                                      overlap |-> w.ecmg.cb.slot = i /\ w.ecmg.cb.todo # <<>>,
                                      stale |-> slot.ecm.cp_number # slot.cp_number,
                                      partial |-> ~slot.ecm.whole,
                                      beyond |-> idx >= slot.ecm.size]]

\* Line 695: the first PID from `pid` which is not in use.
RECURSIVE FirstUnusedPID(_, _)
FirstUnusedPID(pid, used) ==
    IF pid < PID_NULL /\ pid \in used THEN FirstUnusedPID(pid + 1, used) ELSE pid

\* Lines 639-667: the PAT maps the service to the PID opt.pat_pmt_pid.
ProcessPAT(w) ==
    [w EXCEPT !.sp.input_pids = @ \cup {opt.pat_pmt_pid},
              !.sp.demux_pids = (@ \ {w.sp.pmt_pid}) \cup {opt.pat_pmt_pid},
              !.sp.pmt_pid = opt.pat_pmt_pid]

\* Mutant: the CA_descriptor is added to the PMT with a fixed control word
\* as well.
ProcessPMT_AlwaysCA(w) ==
    LET used == w.sp.input_pids \cup {PID_VIDEO}
        alloc == ~opt.use_fixed_key /\ w.sp.ecm_pid = PID_NULL
        ecm_pid == IF alloc THEN FirstUnusedPID(w.sp.pmt_pid + 1, used) ELSE w.sp.ecm_pid
        w1 == [w EXCEPT !.hist.alloc = alloc,
                        !.sp.input_pids = used,
                        !.sp.scrambled_pids = @ \cup {PID_VIDEO},
                        !.sp.ecm_pid = ecm_pid,
                        !.sp.abort = @ \/ (alloc /\ ecm_pid >= PID_NULL),
                        !.sp.pzer_pmt = <<ecm_pid>>,
                        !.sp.ready = TRUE]
    IN  IF opt.use_fixed_key THEN w1
        ELSE IF w1.sp.ts_bitrate = 0 THEN [w1 EXCEPT !.sp.abort = TRUE]
        ELSE LET change_cw == w1.sp.packet_count + PacketDistance(w1.sp.ts_bitrate, CP_DURATION)
             IN  [w1 EXCEPT !.hist.entry = w1.sp.packet_count,
                            !.sp.pkt_insert_ecm = w1.sp.packet_count,
                            !.sp.pkt_change_cw = change_cw,
                            !.sp.pkt_change_ecm =
                                IF opt.delay_start > 0
                                THEN change_cw + PacketDistance(w1.sp.ts_bitrate, opt.delay_start)
                                ELSE change_cw - PacketDistance(w1.sp.ts_bitrate, opt.delay_start)]

\* Mutant: the change of ECM is set at the change of control word, whatever
\* delay_start.
ProcessPMT_NoDelay(w) ==
    LET used == w.sp.input_pids \cup {PID_VIDEO}
        alloc == ~opt.use_fixed_key /\ w.sp.ecm_pid = PID_NULL
        ecm_pid == IF alloc THEN FirstUnusedPID(w.sp.pmt_pid + 1, used) ELSE w.sp.ecm_pid
        w1 == [w EXCEPT !.hist.alloc = alloc,
                        !.sp.input_pids = used,
                        !.sp.scrambled_pids = @ \cup {PID_VIDEO},
                        !.sp.ecm_pid = ecm_pid,
                        !.sp.abort = @ \/ (alloc /\ ecm_pid >= PID_NULL),
                        !.sp.pzer_pmt = IF opt.use_fixed_key THEN @ ELSE <<ecm_pid>>,
                        !.sp.ready = TRUE]
    IN  IF opt.use_fixed_key THEN w1
        ELSE IF w1.sp.ts_bitrate = 0 THEN [w1 EXCEPT !.sp.abort = TRUE]
        ELSE LET change_cw == w1.sp.packet_count + PacketDistance(w1.sp.ts_bitrate, CP_DURATION)
             IN  [w1 EXCEPT !.hist.entry = w1.sp.packet_count,
                            !.sp.pkt_insert_ecm = w1.sp.packet_count,
                            !.sp.pkt_change_cw = change_cw,
                            !.sp.pkt_change_ecm = change_cw]

\* Lines 674-755: the PMT of the service has one video component, PID_VIDEO.
\* pzer_pmt is the list of the CA_PID of the CA_descriptors of the PMT given
\* to the packetizer _pzer_pmt, empty when it has no PMT.
ProcessPMT(w) ==
    LET used == w.sp.input_pids \cup {PID_VIDEO}
        alloc == ~opt.use_fixed_key /\ w.sp.ecm_pid = PID_NULL
        ecm_pid == IF alloc THEN FirstUnusedPID(w.sp.pmt_pid + 1, used) ELSE w.sp.ecm_pid
        w1 == [w EXCEPT !.hist.alloc = alloc,
                        !.sp.input_pids = used,
                        !.sp.scrambled_pids = @ \cup {PID_VIDEO},
                        !.sp.ecm_pid = ecm_pid,
                        !.sp.abort = @ \/ (alloc /\ ecm_pid >= PID_NULL),
                        !.sp.pzer_pmt = IF opt.use_fixed_key THEN @ ELSE <<ecm_pid>>,
                        !.sp.ready = TRUE]
    IN  IF opt.use_fixed_key THEN w1
        ELSE IF w1.sp.ts_bitrate = 0 THEN [w1 EXCEPT !.sp.abort = TRUE]
        ELSE LET change_cw == w1.sp.packet_count + PacketDistance(w1.sp.ts_bitrate, CP_DURATION)
             IN  [w1 EXCEPT !.hist.entry = w1.sp.packet_count,
                            !.sp.pkt_insert_ecm = w1.sp.packet_count,
                            !.sp.pkt_change_cw = change_cw,
                            !.sp.pkt_change_ecm =
                                IF opt.delay_start > 0
                                THEN change_cw + PacketDistance(w1.sp.ts_bitrate, opt.delay_start)
                                ELSE change_cw - PacketDistance(w1.sp.ts_bitrate, opt.delay_start)]

\* Lines 875 and 569-605: the demux hands a table to handleTable when the
\* packet completes it, on a filtered PID, once per table version.
FeedDemux(w, pkt) ==
    IF pkt.table = "none" \/ pkt.pid \notin w.sp.demux_pids \/ pkt.table \in w.sp.tables_seen
    THEN w
    ELSE LET w1 == [w EXCEPT !.sp.tables_seen = @ \cup {pkt.table}]
         IN  IF pkt.table = "pat" THEN ProcessPAT(w1) ELSE ProcessPMT(w1)

\* The packet pkt reaches the partial scrambling.
Eligible(w) == [w EXCEPT !.hist.eligible = (@ + 1) % opt.partial_scrambling]

\* Mutant: an input packet which is already scrambled takes the place of a
\* packet to leave in the clear.
Scramble_IgnoredTakesTurn(w, pkt) ==
    IF ~pkt.payload \/ pkt.pid \notin w.sp.scrambled_pids
    THEN [w EXCEPT !.out = Out("OK", "pass", pkt.pid, pkt.cc, pkt.sc, 0, 0)]
    ELSE IF pkt.sc # 0 /\ ~opt.ignore_scrambled
    THEN [w EXCEPT !.out = Out("END", "pass", pkt.pid, pkt.cc, pkt.sc, 0, 0)]
    ELSE IF w.sp.partial_clear > 0
    THEN [Eligible(w) EXCEPT !.sp.partial_clear = @ - 1,
                             !.out = Out("OK", "pass", pkt.pid, pkt.cc, pkt.sc, 0, 0)]
    ELSE IF pkt.sc # 0
    THEN [w EXCEPT !.sp.conflict_pids = @ \cup {pkt.pid},
                   !.out = Out("OK", "pass", pkt.pid, pkt.cc, pkt.sc, 0, 0)]
    ELSE [Eligible(w) EXCEPT !.sp.partial_clear = opt.partial_scrambling - 1,
                             !.out = Out("OK", "scrambled", pkt.pid, pkt.cc,
                                         IF opt.use_fixed_key THEN SC_EVEN_KEY
                                         ELSE GetScramblingControlValue(w.cp[CurrentCW(w.sp)]),
                                         0, w.sp.current_key)]

\* Mutant: after a scrambled packet, partial_scrambling packets are left in
\* the clear.
Scramble_OneMoreClear(w, pkt) ==
    IF ~pkt.payload \/ pkt.pid \notin w.sp.scrambled_pids
    THEN [w EXCEPT !.out = Out("OK", "pass", pkt.pid, pkt.cc, pkt.sc, 0, 0)]
    ELSE IF pkt.sc # 0
    THEN IF opt.ignore_scrambled
         THEN [w EXCEPT !.sp.conflict_pids = @ \cup {pkt.pid},
                        !.out = Out("OK", "pass", pkt.pid, pkt.cc, pkt.sc, 0, 0)]
         ELSE [w EXCEPT !.out = Out("END", "pass", pkt.pid, pkt.cc, pkt.sc, 0, 0)]
    ELSE IF w.sp.partial_clear > 0
    THEN [Eligible(w) EXCEPT !.sp.partial_clear = @ - 1,
                             !.out = Out("OK", "pass", pkt.pid, pkt.cc, pkt.sc, 0, 0)]
    ELSE [Eligible(w) EXCEPT !.sp.partial_clear = opt.partial_scrambling,
                             !.out = Out("OK", "scrambled", pkt.pid, pkt.cc,
                                         IF opt.use_fixed_key THEN SC_EVEN_KEY
                                         ELSE GetScramblingControlValue(w.cp[CurrentCW(w.sp)]),
                                         0, w.sp.current_key)]

\* Lines 928-972.
Scramble(w, pkt) ==
    IF ~pkt.payload \/ pkt.pid \notin w.sp.scrambled_pids
    THEN [w EXCEPT !.out = Out("OK", "pass", pkt.pid, pkt.cc, pkt.sc, 0, 0)]
    ELSE IF pkt.sc # 0
    THEN IF opt.ignore_scrambled
         THEN [w EXCEPT !.sp.conflict_pids = @ \cup {pkt.pid},
                        !.out = Out("OK", "pass", pkt.pid, pkt.cc, pkt.sc, 0, 0)]
         ELSE [w EXCEPT !.out = Out("END", "pass", pkt.pid, pkt.cc, pkt.sc, 0, 0)]
    ELSE IF w.sp.partial_clear > 0
    THEN [Eligible(w) EXCEPT !.sp.partial_clear = @ - 1,
                             !.out = Out("OK", "pass", pkt.pid, pkt.cc, pkt.sc, 0, 0)]
    ELSE [Eligible(w) EXCEPT !.sp.partial_clear = opt.partial_scrambling - 1,
                             !.out = Out("OK", "scrambled", pkt.pid, pkt.cc,
                                         IF opt.use_fixed_key THEN SC_EVEN_KEY
                                         ELSE GetScramblingControlValue(w.cp[CurrentCW(w.sp)]),
                                         0, w.sp.current_key)]

(***************************************************************************)
(* SpecScrambler: the plugin after start(), fed with packets, and the ECMG *)
(* answering the ECM requests in any order and after any delay.            *)
(***************************************************************************)
SpOption(fixed, sync, delay, partial, ignore, pid_ecm, bitrate) ==
    [use_fixed_key |-> fixed, synchronous_ecmg |-> sync,
     delay_start |-> ClampDelayStart(delay), partial_scrambling |-> partial,
     ignore_scrambled |-> ignore, pid_ecm |-> pid_ecm, tsp_bitrate |-> bitrate,
     pat_pmt_pid |-> PID_PMT]

\* The same parameters, with a PAT which gives PID pid to the PMT.
WithPMT(o, pid) == [o EXCEPT !.pat_pmt_pid = pid]

SpOptions ==
    { SpOption(FALSE, FALSE, d, 1, FALSE, PID_NULL, TS_BITRATE) : d \in DelayStarts }
    \cup { SpOption(FALSE, TRUE, -800, 2, TRUE, PID_NULL, TS_BITRATE),
           SpOption(FALSE, TRUE, 800, 2, TRUE, PID_DATA, TS_BITRATE),
           SpOption(TRUE, FALSE, 0, 2, TRUE, PID_NULL, TS_BITRATE),
           SpOption(TRUE, FALSE, 0, 1, FALSE, PID_NULL, TS_BITRATE),
           SpOption(FALSE, TRUE, 0, 1, FALSE, PID_NULL, 0),
           WithPMT(SpOption(FALSE, TRUE, 0, 1, FALSE, PID_NULL, TS_BITRATE), PID_PMT_LOW),
           WithPMT(SpOption(FALSE, TRUE, 0, 1, FALSE, PID_NULL, TS_BITRATE), PID_PMT_LAST) }

SpPacket(pid, payload, sc, table) ==
    [pid |-> pid, payload |-> payload, sc |-> sc, cc |-> 0, table |-> table]

SpPackets ==
    { SpPacket(PID_PAT, TRUE, 0, "pat"),
      SpPacket(opt.pat_pmt_pid, TRUE, 0, "pmt"),
      SpPacket(PID_NULL, FALSE, 0, "none"),
      SpPacket(PID_VIDEO, TRUE, 0, "none"),
      SpPacket(PID_VIDEO, TRUE, SC_EVEN_KEY, "none"),
      SpPacket(PID_VIDEO, FALSE, 0, "none"),
      SpPacket(PID_DATA, TRUE, 0, "none") }

\* What the ECMG does with a request: takes it or not, answers a valid ECM or
\* not, of so many packets.
Envs == [accepted : BOOLEAN, valid : BOOLEAN, size : EcmSizes]

\* start(), lines 429-441, 454 and 535-543.
StartState(o) ==
    [abort |-> FALSE, ready |-> FALSE, degraded_mode |-> FALSE, packet_count |-> 0,
     partial_clear |-> 0, pkt_insert_ecm |-> 0, pkt_change_cw |-> 0, pkt_change_ecm |-> 0,
     ts_bitrate |-> 0, ecm_cc |-> 0, current_cw |-> 0, current_ecm |-> 0,
     current_key |-> 0, ecm_pid |-> o.pid_ecm, pmt_pid |-> PID_NULL,
     input_pids |-> (0 .. 30) \cup {PID_NULL}, scrambled_pids |-> {}, conflict_pids |-> {},
     cw_gen |-> 0, demux_pids |-> {PID_PAT}, tables_seen |-> {}, pzer_pmt |-> <<>>]

\* start(), lines 477-531.
StartAt(w, env, first) ==
    IF opt.use_fixed_key
    THEN [w EXCEPT !.sp.current_key = FIXED_CW]
    ELSE InitNext(InitScramblerKey(InitCycle(w, 1, first, env), 1), 2, 1, env)

\* Line 528: the first crypto-period has number 0.
Start(w, env) == StartAt(w, env, 0)

\* The state after start(), the first crypto-period having number `first`.
InitScramblerAt(first) ==
    /\ opt \in SpOptions
    /\ \E size \in EcmSizes :
          LET w == StartAt([sp |-> StartState(opt),
                            cp |-> <<NewCryptoPeriod, NewCryptoPeriod>>,
                            ecmg |-> [pending |-> {}, cb |-> NoCallback],
                            hist |-> NewHist("start"), out |-> NoOut],
                           [accepted |-> TRUE, valid |-> TRUE, size |-> size], first)
          IN  /\ sp = w.sp
              /\ cp = w.cp
              /\ ecmg = w.ecmg
              /\ sp_hist = w.hist
              /\ sp_out = w.out
    /\ sp_pc = "idle"
    /\ sp_pkt = SpPacket(PID_NULL, FALSE, 0, "none")
    /\ section_handler = FALSE
    /\ table_handler = TRUE
    /\ handler_act = "none"
    /\ handler_at = 1
    /\ InitDemuxState
    /\ InitRT

InitScrambler == InitScramblerAt(0)

\* The state the plugin thread works on, at the beginning of step `op`.
Work0(op) ==
    [sp |-> sp, cp |-> cp, ecmg |-> ecmg, out |-> NoOut,
     hist |-> [NewHist(op) EXCEPT !.was_degraded = sp.degraded_mode,
                                  !.cw_toggles = IF op = "processPacket" THEN 0
                                                 ELSE sp_hist.cw_toggles,
                                  !.entry = sp_hist.entry,
                                  !.first_cw = sp_hist.first_cw,
                                  !.first_ecm = sp_hist.first_ecm,
                                  !.degraded_seen = sp_hist.degraded_seen,
                                  !.eligible = sp_hist.eligible]]

\* The plugin thread ends a step at position pc.
Commit(w, pc) ==
    /\ sp' = w.sp
    /\ cp' = w.cp
    /\ ecmg' = w.ecmg
    /\ sp_hist' = [w.hist EXCEPT
                       !.cw_toggles = IF w.sp.current_cw # sp.current_cw THEN @ + 1 ELSE @,
                       !.first_cw = IF @ = 0 /\ w.sp.current_cw # sp.current_cw
                                    THEN w.sp.packet_count ELSE @,
                       !.first_ecm = IF @ = 0 /\ w.sp.current_ecm # sp.current_ecm
                                     THEN w.sp.packet_count ELSE @,
                       !.degraded_seen = @ \/ w.sp.degraded_mode]
    /\ sp_out' = w.out
    /\ sp_pc' = pc
    /\ UNCHANGED <<opt, sdVars, rtVars>>

\* The position of the plugin thread after a packet was returned.
AfterOut(w) == IF w.out.status = "END" THEN "end" ELSE "idle"

\* processPacket called with packet pkt, lines 857-900 (and 928-972 with a
\* fixed control word), from the state w0.
ProcessPacketOn(pkt, w0) ==
    LET w1 == [w0 EXCEPT !.sp.packet_count = @ + 1,
                         !.sp.input_pids = @ \cup {pkt.pid},
                         !.sp.ts_bitrate = IF opt.tsp_bitrate # 0
                                           THEN opt.tsp_bitrate ELSE @]
        w2 == FeedDemux(w1, pkt)
        end == [w2 EXCEPT !.out = Out("END", "pass", pkt.pid, pkt.cc, pkt.sc, 0, 0)]
    IN  /\ sp_pkt' = pkt
        /\ IF w2.sp.abort THEN Commit(end, "end")
           ELSE IF w2.sp.ecm_pid # PID_NULL /\ pkt.pid = w2.sp.ecm_pid
           THEN Commit(end, "end")
           ELSE IF ~w2.sp.ready
           THEN Commit([w2 EXCEPT !.out = Out("NULL", "null", PID_NULL, 0, 0, 0, 0)],
                       "idle")
           ELSE IF opt.use_fixed_key
           THEN LET w3 == Scramble(w2, pkt) IN Commit(w3, AfterOut(w3))
           ELSE IF pkt.pid = w2.sp.pmt_pid
           THEN Commit([w2 EXCEPT !.out = Out("OK", "pmt", pkt.pid, 0, 0, 0, 0)], "idle")
           ELSE Commit(w2, "cw")

\* tsp calls processPacket with the next packet of the stream.
ProcessPacketBegin ==
    /\ sp_pc = "idle"
    /\ sp.packet_count < MaxPackets
    /\ sp.ready \/ sp.packet_count < MaxWait
    /\ \E pkt \in SpPackets : ProcessPacketOn(pkt, Work0("processPacket"))

\* processPacket, lines 902-905.
ProcessPacketCW ==
    /\ sp_pc = "cw"
    /\ \E env \in Envs :
          LET w0 == Work0("changeCW")
          IN  IF sp.packet_count >= sp.pkt_change_cw
              THEN Commit(ChangeCW([w0 EXCEPT !.hist.attempt = TRUE], env), "ecm")
              ELSE Commit(w0, "ecm")
    /\ UNCHANGED sp_pkt

\* processPacket, lines 907-910.
ProcessPacketECM ==
    /\ sp_pc = "ecm"
    /\ \E env \in Envs :
          LET w0 == Work0("changeECM")
          IN  IF sp.packet_count >= sp.pkt_change_ecm
              THEN Commit(ChangeECM([w0 EXCEPT !.hist.attempt = TRUE], env), "insert")
              ELSE Commit(w0, "insert")
    /\ UNCHANGED sp_pkt

\* processPacket, lines 912-920, and 928-972 when no ECM packet is inserted.
ProcessPacketInsert ==
    /\ sp_pc = "insert"
    /\ \E env \in Envs :
          LET w0 == Work0("tryExitDegradedMode")
          IN  IF sp_pkt.pid = PID_NULL /\ sp.packet_count >= sp.pkt_insert_ecm
              THEN Commit(TryExitDegradedMode(
                              [w0 EXCEPT !.sp.pkt_insert_ecm =
                                             @ + (sp.ts_bitrate \div ECM_BITRATE),
                                         !.hist.attempt = TRUE], env), "getecm")
              ELSE LET w1 == Scramble([w0 EXCEPT !.hist.op = "scramble"], sp_pkt)
                   IN  Commit(w1, AfterOut(w1))
    /\ UNCHANGED sp_pkt

\* processPacket, lines 922-924.
ProcessPacketGetECM ==
    /\ sp_pc = "getecm"
    /\ Commit(GetNextECMPacket(Work0("getNextECMPacket")), "idle")
    /\ UNCHANGED sp_pkt

\* The callback thread leaves handleECM when all its writes are done.
AfterWrite(cb) == IF cb.todo = <<>> /\ cb.ok_done THEN NoCallback ELSE cb

\* The ECMG answers a request: handleECM is entered in the callback thread
\* (lines 1065-1086). An invalid ECM sets _abort and returns.
HandleECMBeginOf(sizes) ==
    /\ ~opt.use_fixed_key
    /\ ecmg.cb = NoCallback
    /\ \E r \in ecmg.pending, valid \in BOOLEAN, size \in sizes :
          IF valid
          THEN /\ ecmg' = [pending |-> ecmg.pending \ {r},
                           cb |-> [slot |-> r.slot, cp_number |-> r.cp_number, size |-> size,
                                   todo |-> <<"resize", "copy">>, ok_done |-> FALSE]]
               /\ UNCHANGED sp
          ELSE /\ ecmg' = [ecmg EXCEPT !.pending = @ \ {r}]
               /\ sp' = [sp EXCEPT !.abort = TRUE]
    /\ UNCHANGED <<opt, cp, sp_pc, sp_pkt, sp_out, sp_hist, sdVars, rtVars>>

HandleECMBegin == HandleECMBeginOf(EcmSizes)

\* handleECM, lines 1076-1095: _ecm is resized, then its content is written
\* and _ecm_pkt_index is cleared.
HandleECMWrite ==
    /\ ecmg.cb.todo # <<>>
    /\ LET cb == ecmg.cb
           i == cb.slot
           what == Head(cb.todo)
       IN  /\ cp' = IF what = "resize"
                    THEN [cp EXCEPT ![i].ecm = [size |-> cb.size, cp_number |-> cb.cp_number,
                                                whole |-> FALSE]]
                    ELSE [cp EXCEPT ![i].ecm.whole = TRUE, ![i].ecm_pkt_index = 0]
           /\ ecmg' = [ecmg EXCEPT !.cb = AfterWrite([cb EXCEPT !.todo = Tail(cb.todo)])]
    /\ UNCHANGED <<opt, sp, sp_pc, sp_pkt, sp_out, sp_hist, sdVars, rtVars>>

\* handleECM, line 1098: _ecm_ok = true is made visible to the plugin thread.
\* _ecm_ok is a volatile bool, not an atomic: nothing orders this write after
\* the others for the plugin thread, which can see it at any point of handleECM.
HandleECMPublish ==
    /\ ecmg.cb.slot # 0
    /\ ~ecmg.cb.ok_done
    /\ cp' = [cp EXCEPT ![ecmg.cb.slot].ecm_ok = TRUE]
    /\ ecmg' = [ecmg EXCEPT !.cb = AfterWrite([ecmg.cb EXCEPT !.ok_done = TRUE])]
    /\ UNCHANGED <<opt, sp, sp_pc, sp_pkt, sp_out, sp_hist, sdVars, rtVars>>

NextScrambler ==
    \/ ProcessPacketBegin
    \/ ProcessPacketCW
    \/ ProcessPacketECM
    \/ ProcessPacketInsert
    \/ ProcessPacketGetECM
    \/ HandleECMBegin
    \/ HandleECMWrite
    \/ HandleECMPublish

SpecScrambler == InitScrambler /\ [][NextScrambler]_vars

(***************************************************************************)
(* SpecScramblerSized: the same plugin with an asynchronous ECMG working   *)
(* in packet mode, whose ECMs are of any number of packets, none included, *)
(* and whose delay_start is zero.                                          *)
(***************************************************************************)
EcmSizesInPacketMode == {0, 1, 2}

InitScramblerSized ==
    InitScrambler /\ ~opt.use_fixed_key /\ ~opt.synchronous_ecmg /\ opt.delay_start = 0

HandleECMBeginSized == HandleECMBeginOf(EcmSizesInPacketMode)

NextScramblerSized ==
    \/ ProcessPacketBegin
    \/ ProcessPacketCW
    \/ ProcessPacketECM
    \/ ProcessPacketInsert
    \/ ProcessPacketGetECM
    \/ HandleECMBeginSized
    \/ HandleECMWrite
    \/ HandleECMPublish

SpecScramblerSized == InitScramblerSized /\ [][NextScramblerSized]_vars

(***************************************************************************)
(* SpecScramblerAged: the same plugin 65534 crypto-periods later, when the *)
(* 16-bit crypto-period number is about to wrap. The slots, the clocks and *)
(* the first slot holding the even number are as after start(); packets    *)
(* are counted from there.                                                 *)
(***************************************************************************)
CP_NUMBER_LAST_EVEN == 65534

InitScramblerAged == InitScramblerAt(CP_NUMBER_LAST_EVEN)

SpecScramblerAged == InitScramblerAged /\ [][NextScrambler]_vars

(***************************************************************************)
(* SpecScramblerHost: the same plugin under a host which goes on calling   *)
(* processPacket after END was returned. Nothing in the plugin prevents    *)
(* such a call.                                                            *)
(***************************************************************************)
ProcessPacketAfterEnd ==
    /\ sp_pc = "end"
    /\ sp.packet_count < MaxPackets
    /\ sp.ready \/ sp.packet_count < MaxWait
    /\ \E pkt \in SpPackets : ProcessPacketOn(pkt, Work0("processPacket"))

NextScramblerHost ==
    \/ ProcessPacketAfterEnd
    \/ ProcessPacketBegin
    \/ ProcessPacketCW
    \/ ProcessPacketECM
    \/ ProcessPacketInsert
    \/ ProcessPacketGetECM
    \/ HandleECMBegin
    \/ HandleECMWrite
    \/ HandleECMPublish

SpecScramblerHost == InitScrambler /\ [][NextScramblerHost]_vars

(***************************************************************************)
(* SpecScramblerLive: the same plugin with an ECMG which answers, under    *)
(* the scheduling the liveness of degraded mode depends on. In degraded    *)
(* mode the stream goes on without end. The code only compares             *)
(* _packet_count with the three clocks and sets a clock from it, so the    *)
(* four counters are kept relative to a window of MaxPackets packets: past *)
(* the window all four are moved down by one packet. A clock which is      *)
(* already reached stays reached (the insertion clock then forgets by how  *)
(* much it is late).                                                       *)
(***************************************************************************)
Floor0(n) == IF n < 0 THEN 0 ELSE n

\* The window of packets of SpecScramblerLive.
MaxLivePackets == 4

\* Its stream: the PAT, the PMT, then null packets and clear video packets.
LivePackets ==
    IF "pat" \notin sp.tables_seen THEN { SpPacket(PID_PAT, TRUE, 0, "pat") }
    ELSE IF "pmt" \notin sp.tables_seen THEN { SpPacket(opt.pat_pmt_pid, TRUE, 0, "pmt") }
    ELSE { SpPacket(PID_NULL, FALSE, 0, "none"), SpPacket(PID_VIDEO, TRUE, 0, "none") }

Rebase(w) ==
    IF w.sp.packet_count < MaxLivePackets THEN w
    ELSE [w EXCEPT !.sp.packet_count = @ - 1,
                   !.sp.pkt_insert_ecm = Floor0(@ - 1),
                   !.sp.pkt_change_cw = Floor0(@ - 1),
                   !.sp.pkt_change_ecm = Floor0(@ - 1)]

InitScramblerLive == InitScrambler /\ ~opt.use_fixed_key /\ ~opt.synchronous_ecmg

\* tsp calls processPacket with packet pkt.
ProcessPacketLive(pkt) ==
    /\ sp_pc = "idle"
    /\ sp.packet_count < MaxLivePackets \/ sp.degraded_mode
    /\ sp.ready \/ sp.packet_count < MaxWait
    /\ ProcessPacketOn(pkt, Rebase(Work0("processPacket")))

ProcessPacketBeginLive == \E pkt \in LivePackets : ProcessPacketLive(pkt)

\* A null packet arrives in the input.
NullPacketArrives ==
    /\ SpPacket(PID_NULL, FALSE, 0, "none") \in LivePackets
    /\ ProcessPacketLive(SpPacket(PID_NULL, FALSE, 0, "none"))

\* The plugin thread goes on with the packet it is processing.
PluginThreadRuns ==
    ProcessPacketCW \/ ProcessPacketECM \/ ProcessPacketInsert \/ ProcessPacketGetECM

\* The callback thread goes on with the ECM it is handling.
CallbackThreadRuns == HandleECMWrite \/ HandleECMPublish

NextScramblerLive ==
    \/ ProcessPacketBeginLive
    \/ ProcessPacketCW
    \/ ProcessPacketECM
    \/ ProcessPacketInsert
    \/ ProcessPacketGetECM
    \/ HandleECMBegin
    \/ HandleECMWrite
    \/ HandleECMPublish

\* Both threads are scheduled; the ECMG answers every request; null packets
\* keep arriving.
FairScrambler ==
    /\ WF_vars(PluginThreadRuns)
    /\ WF_vars(CallbackThreadRuns)
    /\ WF_vars(HandleECMBegin)
    /\ SF_vars(NullPacketArrives)

SpecScramblerLive == InitScramblerLive /\ [][NextScramblerLive]_vars /\ FairScrambler

(***************************************************************************)
(* Claims on the scrambler.                                                *)
(***************************************************************************)

\* C1 as claimed: whenever changeCW or changeECM calls initNext on a slot, the
\* slot's ecm_ready was true and no request submitted for that slot was still
\* to be answered or being written by handleECM.
C1_RearmOnlyWhenReady ==
    sp_hist.rearm # 0 => (sp_hist.rearm_ok /\ ~sp_hist.rearm_busy)

\* C2 as claimed: a packet that getNextECMPacket takes from a slot is never
\* read while handleECM still has writes to do on that slot, and is a whole
\* packet of the ECM of the crypto-period of the slot.
C2_ReadsPublishedECM ==
    sp_hist.read.slot # 0 =>
        /\ ~sp_hist.read.overlap
        /\ ~sp_hist.read.partial
        /\ ~sp_hist.read.stale

\* C10: in degraded mode a call of changeCW or changeECM leaves current_cw,
\* current_ecm, the scrambling key, the two slots and the two transition
\* clocks as they are, and submits no ECM request.
C10_NoChangeWhileDegraded ==
    [][ ( /\ sp.degraded_mode
          /\ \/ sp_pc = "cw" /\ sp_pc' = "ecm" /\ sp.packet_count >= sp.pkt_change_cw
             \/ sp_pc = "ecm" /\ sp_pc' = "insert" /\ sp.packet_count >= sp.pkt_change_ecm )
        => /\ sp'.current_cw = sp.current_cw
           /\ sp'.current_ecm = sp.current_ecm
           /\ sp'.current_key = sp.current_key
           /\ sp'.pkt_change_cw = sp.pkt_change_cw
           /\ sp'.pkt_change_ecm = sp.pkt_change_ecm
           /\ sp'.degraded_mode
           /\ cp' = cp
           /\ ecmg' = ecmg ]_vars

\* C10 witness: changeCW or changeECM was called in degraded mode at a time
\* when the next ECM had become ready.
C10_Witness ==
    /\ sp_hist.op \in {"changeCW", "changeECM"}
    /\ sp_hist.attempt
    /\ sp_hist.was_degraded
    /\ cp[NextECM(sp)].ecm_ok
    /\ sp.degraded_mode

\* The plugin thread calls changeCW (lines 903-905) or changeECM (lines
\* 908-910) in this step because packet_count has reached the clock.
RotationAttempt ==
    \/ sp_pc = "cw" /\ sp_pc' = "ecm" /\ sp.packet_count >= sp.pkt_change_cw
    \/ sp_pc = "ecm" /\ sp_pc' = "insert" /\ sp.packet_count >= sp.pkt_change_ecm

\* C11: degraded mode is entered only in a step that calls changeCW or
\* changeECM because the clock is reached, and only if the ECM of the next slot
\* is not ready; such a call made out of degraded mode enters it if and only
\* if the ECM of the next slot is not ready.
C11_DegradedEntry ==
    [][ /\ (~sp.degraded_mode /\ sp'.degraded_mode)
            => (RotationAttempt /\ ~cp[NextECM(sp)].ecm_ok)
        /\ (RotationAttempt /\ ~sp.degraded_mode /\ ~cp[NextECM(sp)].ecm_ok)
            => sp'.degraded_mode ]_vars

\* C11 witness: changeECM, called out of degraded mode after a first change of
\* control word, found the next ECM not ready and entered degraded mode.
C11_Witness ==
    /\ sp_hist.op = "changeECM"
    /\ sp_hist.attempt
    /\ ~sp_hist.was_degraded
    /\ sp.degraded_mode
    /\ sp.current_cw = 1

\* An ECM packet is inserted in this step (lines 913-924): tryExitDegradedMode
\* is called.
ECMInsertion == sp_pc = "insert" /\ sp_pc' = "getecm"

\* C12: in degraded mode, the insertion of an ECM packet leaves degraded mode
\* in the same packet if the ECM of the next slot is ready: with a negative
\* delay_start the current ECM toggles and the change of control word is set
\* |delay_start| later, otherwise the control word toggles and the change of
\* ECM is set delay_start later. If the ECM of the next slot is not ready, the
\* mode and both indices are unchanged.
C12_ExitAtInsertion ==
    [][ (ECMInsertion /\ sp.degraded_mode) =>
          IF cp[NextECM(sp)].ecm_ok
          THEN /\ ~sp'.degraded_mode
               /\ IF opt.delay_start < 0
                  THEN /\ sp'.current_ecm = 1 - sp.current_ecm
                       /\ sp'.pkt_change_cw =
                              sp.packet_count + PacketDistance(sp.ts_bitrate, opt.delay_start)
                  ELSE /\ sp'.current_cw = 1 - sp.current_cw
                       /\ sp'.pkt_change_ecm =
                              sp.packet_count + PacketDistance(sp.ts_bitrate, opt.delay_start)
          ELSE /\ sp'.degraded_mode
               /\ sp'.current_cw = sp.current_cw
               /\ sp'.current_ecm = sp.current_ecm ]_vars

\* C12 witness: degraded mode was left at an ECM insertion, with a negative
\* delay_start; the current ECM is now the one of the second slot.
C12_Witness ==
    /\ sp_hist.op = "tryExitDegradedMode"
    /\ sp_hist.exit
    /\ sp_hist.was_degraded
    /\ opt.delay_start < 0
    /\ sp.current_ecm = 1
    /\ ~sp.degraded_mode

\* A step of processPacket made in degraded mode which stays in it.
DegradedStep ==
    /\ sp.degraded_mode
    /\ sp'.degraded_mode
    /\ sp_pc' # sp_pc \/ sp'.packet_count # sp.packet_count

\* C13: degraded mode is eventually left (or the plugin has stopped on a fatal
\* condition) when the ECMG answers and null packets keep arriving; meanwhile
\* no step of processPacket sets _abort or changes the control word, END is
\* returned only for a condition which is fatal out of degraded mode as well,
\* and packets are scrambled with the control word of the current slot.
C13_DegradedModeIsLeft ==
    /\ (sp.degraded_mode ~> (~sp.degraded_mode \/ sp_pc = "end"))
    /\ [][ DegradedStep =>
             /\ sp'.abort = sp.abort
             /\ sp'.current_cw = sp.current_cw
             /\ sp'.current_key = sp.current_key
             /\ sp_out'.status = "END" =>
                   \/ sp.abort
                   \/ sp_pkt'.pid = sp.ecm_pid
                   \/ (sp_pkt.sc # 0 /\ ~opt.ignore_scrambled)
             /\ sp_out'.kind = "scrambled" =>
                   sp_out'.key = cp[CurrentCW(sp)].cw_current ]_vars

\* C13 witness: degraded mode is left after more packets than the window
\* holds (the insertion clock, late, was moved down with the window).
C13_Witness ==
    /\ sp_hist.exit
    /\ sp_hist.was_degraded
    /\ ~sp.degraded_mode
    /\ sp.packet_count = MaxLivePackets
    /\ sp.pkt_insert_ecm <= 2

C15_EcmContinuity ==
    [][ IF sp_pc = "getecm" /\ sp_out'.kind = "ecm"
        THEN /\ sp_out'.cc = sp.ecm_cc
             /\ sp_out'.pid = sp.ecm_pid
             /\ sp'.ecm_cc = (sp.ecm_cc + 1) % CC_MAX
        ELSE sp'.ecm_cc = sp.ecm_cc ]_vars

\* C15 witness: the sixteenth ECM packet leaves with counter 15 and the
\* counter wraps to 0, in degraded mode.
C15_Witness ==
    /\ sp_hist.op = "getNextECMPacket"
    /\ sp_out.kind = "ecm"
    /\ sp_out.cc = CC_MAX - 1
    /\ sp.ecm_cc = 0
    /\ sp.degraded_mode

\* The PIDs the specification reserves: 0x0000 to 0x001F.
ReservedPIDs == 0 .. 31

\* The smallest element of a non-empty set of PIDs.
MinPID(S) == CHOOSE p \in S : \A q \in S : p <= q

\* The PIDs above the PMT PID which are neither reserved nor claimed.
FreePIDs == { p \in (sp.pmt_pid + 1) .. (PID_NULL - 1) : p \notin ReservedPIDs \cup sp.input_pids }

\* C16: when processPMT has allocated the ECM PID, it is the smallest PID
\* above the PMT PID which is neither reserved (0x0000 to 0x001F), nor the
\* null PID, nor claimed; if there is none, the plugin aborts.
C16_AllocatedPidFree ==
    sp_hist.alloc =>
        IF FreePIDs = {}
        THEN sp.abort
        ELSE /\ sp.ecm_pid = MinPID(FreePIDs)
             /\ sp.ecm_pid \notin ReservedPIDs
             /\ sp.ecm_pid # PID_NULL

\* The ECM PID was allocated by processPMT, not given by --pid-ecm.
AutoAllocated == opt.pid_ecm = PID_NULL /\ sp.ecm_pid # PID_NULL

\* C17: with ECM generation and no fatal error before, the first part of
\* processPacket returns END if and only if the packet is on the ECM PID and
\* the ECM PID was allocated automatically.
C17_ConflictOnlyIfAllocated ==
    (sp_hist.op = "processPacket" /\ ~sp.abort /\ ~opt.use_fixed_key)
        => (sp_out.status = "END" <=> (sp_pkt.pid = sp.ecm_pid /\ AutoAllocated))

\* C18: once processPacket has returned END, the next call, and so every
\* later call, returns END.
C18_EndIsTerminal ==
    [][ (sp_pc = "end" /\ sp'.packet_count # sp.packet_count)
            => (sp_pc' = "end" /\ sp_out'.status = "END") ]_vars

\* C19: a scrambled packet leaves with scrambling_control odd (3) when
\* current_cw is 1 and even (2) when it is 0; with a fixed control word it is
\* always even.
C19_ScramblingControl ==
    sp_out.kind = "scrambled" =>
        sp_out.sc = IF opt.use_fixed_key THEN SC_EVEN_KEY
                    ELSE IF sp.current_cw = 1 THEN SC_ODD_KEY ELSE SC_EVEN_KEY

\* C19 witness: a packet scrambled after the crypto-period number has wrapped
\* to 0 and the control word has changed twice.
C19_Witness ==
    /\ sp_out.kind = "scrambled"
    /\ ~opt.use_fixed_key
    /\ sp.current_cw = 0
    /\ cp[1].cp_number = 0
    /\ cp[2].cp_number = CP_NUMBER_LAST_EVEN + 1
    /\ sp_out.sc = SC_EVEN_KEY

\* The clocks processPMT sets when packet_count is n.
EntryChangeCW(n) == n + PacketDistance(sp.ts_bitrate, CP_DURATION)

EntryChangeECM(n) ==
    IF opt.delay_start > 0
    THEN EntryChangeCW(n) + PacketDistance(sp.ts_bitrate, opt.delay_start)
    ELSE EntryChangeCW(n) - PacketDistance(sp.ts_bitrate, opt.delay_start)

\* processPMT has just set the clocks.
JustEntered == sp_hist.entry # 0 /\ sp_hist.entry = sp.packet_count

EligibleOut ==
    /\ sp_out.status = "OK"
    /\ sp_out.kind \in {"pass", "scrambled"}
    /\ sp_pkt.payload
    /\ sp_pkt.sc = 0
    /\ sp_pkt.pid \in sp.scrambled_pids

\* C21: with partial_scrambling = N, of the successive packets eligible for
\* scrambling (scrambled PID, payload, not already scrambled) the 1st, the
\* N+1th, ... are scrambled and the others are returned unchanged, in the
\* clear; with N = 1 every eligible packet is scrambled.
C21_OneInN ==
    EligibleOut =>
       /\ sp_out.kind = "scrambled"
             <=> (sp_hist.eligible + opt.partial_scrambling - 1) % opt.partial_scrambling = 0
       /\ sp_out.kind = "scrambled" => sp_out.sc # 0
       /\ sp_out.kind = "pass" => (sp_out.sc = 0 /\ sp_out.pid = sp_pkt.pid)
       /\ opt.partial_scrambling = 1 => sp_out.kind = "scrambled"

\* C21 witness: with N = 2, the second packet of a group of two has been
\* returned in the clear; the next eligible packet will be scrambled.
C21_Witness ==
    /\ opt.partial_scrambling = 2
    /\ EligibleOut
    /\ sp_out.kind = "pass"
    /\ sp_hist.eligible = 0
    /\ sp.partial_clear = 0

\* A call of processPacket returns in this step.
PacketReturned ==
    /\ sp_pc' \in {"idle", "end"}
    /\ sp_pc = "insert" \/ sp'.packet_count # sp.packet_count

\* The packet of the call which returns in this step is on a scrambled PID,
\* has a payload and is already scrambled.
ScrambledInput ==
    /\ PacketReturned
    /\ sp_pkt'.payload
    /\ sp_pkt'.sc # 0
    /\ sp_pkt'.pid \in sp'.scrambled_pids

\* The call which returns in this step found _abort set at line 878.
AbortedAtEntry == sp_pc # "insert" /\ sp.abort

\* C22: an input packet on a scrambled PID which is already scrambled is
\* returned unmodified; with ignore_scrambled the status is OK and the packet
\* takes no turn of the partial scrambling; without it the status is END.
C22_AlreadyScrambled ==
    [][ScrambledInput =>
          /\ sp_out'.kind = "pass"
          /\ sp_out'.pid = sp_pkt'.pid
          /\ sp_out'.sc = sp_pkt'.sc
          /\ sp_out'.cc = sp_pkt'.cc
          /\ (opt.ignore_scrambled /\ ~AbortedAtEntry) =>
                /\ sp_out'.status = "OK"
                /\ sp'.partial_clear = sp.partial_clear
                /\ sp_hist'.eligible = sp_hist.eligible
          /\ ~opt.ignore_scrambled => sp_out'.status = "END"]_vars

\* C22 witness: with partial_scrambling = 2, an already scrambled packet has
\* been passed with status OK while the next clear packet was to be left in
\* the clear, which it still is.
C22_Witness ==
    /\ opt.ignore_scrambled
    /\ sp_out.status = "OK"
    /\ sp_out.kind = "pass"
    /\ sp_pkt.payload
    /\ sp_pkt.sc # 0
    /\ sp_pkt.pid \in sp.conflict_pids
    /\ sp.partial_clear = 1

\* The fixed control word configuration, after the PMT was processed.
FixedCW == opt.use_fixed_key /\ opt.partial_scrambling = 1 /\ sp.ready

\* processPacket has returned a clear packet of the video PID with a payload.
VideoReturned ==
    /\ sp_out.status # "none"
    /\ sp_pkt.pid = PID_VIDEO
    /\ sp_pkt.payload
    /\ sp_pkt.sc = 0

\* processPacket has returned a packet of the PMT PID.
PMTReturned == sp_out.status = "OK" /\ sp.ready /\ sp_pkt.pid = sp.pmt_pid

\* C23 as stated: with a fixed control word and partial_scrambling = 1, once
\* the PMT is processed every clear packet of the video PID with a payload is
\* returned scrambled with scrambling_control 2, and the PMT sent on the PMT
\* PID has one CA_descriptor whose CA_PID is ecm_pid.
C23_FixedCWAddsCA ==
    FixedCW =>
       /\ VideoReturned =>
             /\ sp_out.status = "OK"
             /\ sp_out.kind = "scrambled"
             /\ sp_out.sc = SC_EVEN_KEY
       /\ PMTReturned =>
             /\ sp_out.kind = "pmt"
             /\ sp.pzer_pmt = <<sp.ecm_pid>>

\* C23 amended: with a fixed control word and partial_scrambling = 1, once
\* the PMT is processed every clear packet of the video PID with a payload is
\* returned scrambled with scrambling_control 2 and the fixed control word;
\* the PMT is not modified: no ECM PID is allocated, the packetizer gets no
\* PMT and the packets of the PMT PID are returned as they came. The PMT with
\* one CA_descriptor whose CA_PID is ecm_pid replaces the packets of the PMT
\* PID with ECM generation only.
C23_FixedCWKeepsPMT ==
    /\ FixedCW =>
          /\ VideoReturned =>
                /\ sp_out.status = "OK"
                /\ sp_out.kind = "scrambled"
                /\ sp_out.sc = SC_EVEN_KEY
                /\ sp_out.key = FIXED_CW
          /\ sp.ecm_pid = opt.pid_ecm
          /\ sp.pzer_pmt = <<>>
          /\ PMTReturned =>
                /\ sp_out.kind = "pass"
                /\ sp_out.pid = sp_pkt.pid
                /\ sp_out.sc = sp_pkt.sc
    /\ (~opt.use_fixed_key /\ PMTReturned) =>
          /\ sp_out.kind = "pmt"
          /\ sp.pzer_pmt = <<sp.ecm_pid>>

\* C23 witness: with a fixed control word, a packet of the video PID has been
\* scrambled after the PMT was processed, and the packetizer has no PMT.
C23_Witness ==
    /\ FixedCW
    /\ VideoReturned
    /\ sp_out.kind = "scrambled"
    /\ sp_out.sc = SC_EVEN_KEY
    /\ sp.pzer_pmt = <<>>
    /\ sp.packet_count > MaxWait

(***************************************************************************)
(* Properties of the demux, continued.                                     *)
(***************************************************************************)
\* This step is feedPacket on a packet whose PID is not in the PID filter.
FeedFiltered == last_op'.op = "feed" /\ last_op'.pid \notin pid_filter

\* C24 as stated: feedPacket on a packet whose PID is not in the PID filter
\* changes nothing in the demux (PID contexts, status, packet counter) and
\* invokes no handler.
C24_FilteredIsNoOp ==
    [][FeedFiltered =>
          /\ UNCHANGED <<pids, status, sd_packet_count>>
          /\ calls' = <<>>]_vars

\* C24 amended: feedPacket on a packet whose PID is not in the PID filter
\* leaves the PID contexts, the status and the filter as they are and invokes
\* no handler; the packet is counted: _packet_count, the index which stamps
\* the sections, is incremented as for any other packet.
C24_FilteredIsCounted ==
    [][FeedFiltered =>
          /\ UNCHANGED <<pids, status, pid_filter, section_handler, table_handler>>
          /\ calls' = <<>>
          /\ sd_packet_count' = sd_packet_count + 1]_vars

\* C24 witness: a packet on a PID out of the filter was fed after a packet
\* which left a context for its PID.
C24_Witness ==
    /\ last_op.op = "feed"
    /\ last_op.pid \notin pid_filter
    /\ pids # EmptyMap
    /\ sd_packet_count = 2

\* The context of the PID of the last packet fed, if it has one.
HasContext == last_op.pid \in DOMAIN pids

OutOfSync == ~pids[last_op.pid].sync /\ pids[last_op.pid].ts = <<>>

\* The anomalies met by the last feedPacket.
SectionRejected == last_op.g_incr.inv_sect_index > 0 \/ last_op.g_incr.wrong_crc > 0

\* C25 as stated: every anomaly met by the demux (scrambled packet,
\* discontinuity, PES start code, inconsistent pointer field, invalid section
\* length, invalid section index, wrong CRC) leaves the PID out of sync with
\* an empty buffer when the packet has been processed.
C25_AnomalyLosesSync ==
    (last_op.op = "feed" /\ HasContext /\ (last_op.g_lost # {} \/ SectionRejected))
        => OutOfSync

\* C25 amended: a scrambled packet, a PES start code, an inconsistent pointer
\* field and an invalid section length leave the PID out of sync with an
\* empty buffer; so does a discontinuity on a packet without PUSI, while a
\* packet with PUSI synchronizes the PID again at once; an invalid section
\* index and a wrong CRC reject the section and leave the PID synchronized.
\* A PID out of sync delivers nothing until a packet with PUSI.
C25_AnomalyByKind ==
    /\ [](last_op.op = "feed" =>
            /\ last_op.g_lost \cap {"scrambled", "pes", "pointer", "length"} # {} =>
                  /\ HasContext
                  /\ OutOfSync
            /\ last_op.g_lost \cap {"scrambled", "pes", "pointer"} # {} => calls = <<>>
            /\ ("discontinuity" \in last_op.g_lost /\ ~last_op.g_pusi) =>
                  /\ HasContext
                  /\ OutOfSync
                  /\ calls = <<>>
            /\ (last_op.g_lost = {"discontinuity"} /\ last_op.g_pusi /\ HasContext) =>
                  pids[last_op.pid].sync
            /\ (last_op.g_lost = {} /\ SectionRejected /\ HasContext) =>
                  pids[last_op.pid].sync)
    /\ [][(/\ last_op'.op = "feed"
           /\ last_op'.pid \in pid_filter
           /\ ~last_op'.g_pusi
           /\ last_op'.pid \in DOMAIN pids => ~pids[last_op'.pid].sync)
          => /\ calls' = <<>>
             /\ last_op'.pid \in DOMAIN pids' => ~pids'[last_op'.pid].sync]_vars

\* C25 witness: a packet brought a section with a wrong CRC32, which was
\* counted, then a section which was delivered, and the PID is synchronized.
C25_Witness ==
    /\ last_op.op = "feed"
    /\ last_op.g_lost = {}
    /\ last_op.g_incr.wrong_crc = 1
    /\ HasContext
    /\ pids[last_op.pid].sync
    /\ Len(calls) > 0

\* The PID of the packet fed in this step was out of sync before the step.
WasOutOfSync ==
    /\ last_op'.op = "feed"
    /\ last_op'.pid \in pid_filter
    /\ last_op'.pid \in DOMAIN pids => ~pids[last_op'.pid].sync

\* C26: a packet with PUSI whose payload starts with 00 00 01 causes no
\* handler call and leaves the PID out of sync; on a PID out of sync every
\* packet is ignored (no handler call, nothing buffered) until a packet with
\* PUSI and a legal pointer field, which synchronizes the PID.
C26_PESRejected ==
    /\ []((last_op.op = "feed" /\ last_op.pid \in pid_filter /\ last_op.g_kind = "pes") =>
             /\ calls = <<>>
             /\ HasContext
             /\ OutOfSync)
    /\ [][ /\ (WasOutOfSync /\ last_op'.g_kind # "legal") =>
                 /\ calls' = <<>>
                 /\ last_op'.pid \in DOMAIN pids' =>
                       /\ ~pids'[last_op'.pid].sync
                       /\ pids'[last_op'.pid].ts = <<>>
           /\ ( /\ WasOutOfSync
                /\ last_op'.g_kind = "legal"
                /\ last_op'.g_lost = {}
                /\ last_op'.pid \in DOMAIN pids' ) =>
                 pids'[last_op'.pid].sync ]_vars

\* C26 witness: a packet which starts a PES packet was fed, then a packet
\* without PUSI on the same PID, which was ignored.
C26_Witness ==
    /\ last_op.op = "feed"
    /\ "pes" \in last_op.g_before
    /\ last_op.pid = PID_A
    /\ last_op.g_kind = "nopusi"
    /\ calls = <<>>
    /\ OutOfSync

\* A section which starts at the byte designated by the pointer field of the
\* last packet fed was handed to a handler.
DeliveredFromPointer ==
    \E i \in 1 .. Len(calls) :
        /\ calls[i].g_first.ptr
        /\ calls[i].g_first.pkt = sd_packet_count - 1

\* No section which starts before the byte designated by the pointer field
\* of the last packet fed was handed to a handler.
NothingBeforePointer ==
    \A i \in 1 .. Len(calls) :
        /\ calls[i].g_first.pkt = sd_packet_count - 1
        /\ ~calls[i].g_first.before

\* C27: when a packet with PUSI has a pointer field which places the start of
\* a new section strictly inside the section in reassembly, the truncated
\* section is handed to no handler and the section which starts at the
\* position given by the pointer field is handed to the section handler,
\* when one is registered.
C27_TruncationDetected ==
    (last_op.op = "feed" /\ last_op.g_trunc # "none") =>
        /\ NothingBeforePointer
        /\ section_handler => DeliveredFromPointer

IsSectionCall(c) == c.kind = "section"

\* The sections handed to the section handler by the last operation.
SectionCalls ==
    LET c == SelectSeq(calls, IsSectionCall)
    IN  [i \in 1 .. Len(c) |-> c[i].sects[1].data]

\* C28: when the payload of a packet is made of complete sections back to
\* back followed by stuffing, the section handler is invoked once per section
\* in the order of the payload, and the buffer of the PID is empty when
\* feedPacket returns.
C28_BackToBack ==
    ( /\ last_op.op = "feed"
      /\ last_op.pid \in pid_filter
      /\ last_op.g_secs # <<>>
      /\ section_handler
      /\ handler_act = "none"
      /\ ~SectionRejected ) =>
        /\ SectionCalls = last_op.g_secs
        /\ HasContext
        /\ pids[last_op.pid].ts = <<>>

\* C28 witness: a packet brought two sections and two bytes of stuffing; the
\* section handler was invoked for the first, then for the second.
C28_Witness ==
    /\ last_op.op = "feed"
    /\ section_handler
    /\ last_op.g_secs = <<Sh40, Sh41>>
    /\ SectionCalls = <<Sh40, Sh41>>
    /\ pids[last_op.pid].ts = <<>>

\* C29: between two calls of feedPacket, a PID context which is not
\* synchronized has an empty buffer, and an ETID context which expects
\* sections (sect_expected > 0) has exactly sect_expected slots.
C29_ContextInvariant ==
    \A pid \in DOMAIN pids :
        /\ ~pids[pid].sync => pids[pid].ts = <<>>
        /\ \A etid \in DOMAIN pids[pid].tids :
              LET tc == pids[pid].tids[etid]
              IN  tc.sect_expected > 0 => Len(tc.sects) = tc.sect_expected

\* C29 witness: the last packet fed made a PID lose its synchronization
\* while a table of two sections was half received.
C29_Witness ==
    \E pid \in DOMAIN pids :
        /\ ~pids[pid].sync
        /\ \E etid \in DOMAIN pids[pid].tids :
              /\ pids[pid].tids[etid].sect_expected = 2
              /\ pids[pid].tids[etid].sect_received = 1
        /\ last_op.g_lost # {}

\* C30 as stated: every complete long section which passes the checks of
\* length, index and current/next has its CRC32 validated, with or without
\* section handler, its slot filled or not: each one with a wrong CRC32
\* increments wrong_crc.
C30_EveryBadCrcCounted ==
    last_op.op = "feed" => last_op.g_incr.wrong_crc = last_op.g_bad.n

\* C30 amended: the CRC32 is validated when a Section object is built, that
\* is when a section handler is registered or when the slot of the section
\* is empty: each such section with a wrong CRC32 increments wrong_crc. With
\* no section handler, a section whose slot is filled is dropped unvalidated
\* and wrong_crc is not incremented. No section with a wrong CRC32 is handed
\* to a handler.
C30_BadCrcCountedWhenBuilt ==
    last_op.op = "feed" =>
        /\ last_op.g_incr.wrong_crc =
              IF section_handler THEN last_op.g_bad.n
              ELSE last_op.g_bad.n - last_op.g_bad.filled
        /\ \A i \in 1 .. Len(calls) : \A j \in 1 .. Len(calls[i].sects) :
              calls[i].sects[j].data # <<>> => SectionIsValid(calls[i].sects[j].data)

\* C30 witness: with no section handler, a section with a wrong CRC32 came
\* for a slot which was filled, and wrong_crc was not incremented.
C30_Witness ==
    /\ last_op.op = "feed"
    /\ ~section_handler
    /\ last_op.g_bad.filled = 1
    /\ last_op.g_incr.wrong_crc = 0

(***************************************************************************)
(* Properties of the scrambler, continued.                                 *)
(***************************************************************************)

\* An ECMG is in use, neither aborted nor ended, and the plugin thread is
\* not between the entry of processPacket and the end of its calls of
\* changeCW and changeECM (lines 902-910).
WithECMG == ~opt.use_fixed_key /\ ~sp.abort /\ sp_pc \notin {"end", "cw", "ecm"}

\* The crypto-period of the control word in use and of the ECM broadcast.
CWPeriod == cp[CurrentCW(sp)].cp_number
ECMPeriod == cp[CurrentECM(sp)].cp_number

\* Crypto-period n, d periods later.
PeriodPlus(n, d) == (n + d + 65536) % 65536

\* C31 as claimed: while scrambling with an ECMG, the crypto-period of the
\* slot whose ECM is broadcast is that of the slot whose control word is in
\* use, or the one before when delay_start > 0, or the one after when
\* delay_start < 0.
C31_ECMNextToCW ==
    WithECMG =>
        /\ ECMPeriod \in {PeriodPlus(CWPeriod, -1), CWPeriod, PeriodPlus(CWPeriod, 1)}
        /\ opt.delay_start > 0 => ECMPeriod \in {PeriodPlus(CWPeriod, -1), CWPeriod}
        /\ opt.delay_start < 0 => ECMPeriod \in {CWPeriod, PeriodPlus(CWPeriod, 1)}

\* _current_cw changes in this step.
CWToggles == sp'.current_cw # sp.current_cw

\* C32 as claimed: at every toggle of _current_cw the control word loaded
\* in the scrambler is the cw_next of the slot which was in use; between the
\* toggles the key loaded is the cw_current of the slot in use; initNext
\* never re-arms the slot whose control word is in use.
C32_Chaining ==
    [][ /\ ~opt.use_fixed_key /\ CWToggles => sp'.current_key = cp[CurrentCW(sp)].cw_next
        /\ ~opt.use_fixed_key => sp'.current_key = cp'[CurrentCW(sp')].cw_current
        /\ ~opt.use_fixed_key /\ sp_hist'.rearm # 0 => sp_hist'.rearm # CurrentCW(sp')
      ]_vars

\* This step is the call of getNextECMPacket by processPacket (line 922).
GetECMStep == sp_pc = "getecm" /\ sp_pc' = "idle"

\* The slot getNextECMPacket is called on.
BroadcastSlot == cp[CurrentECM(sp)]

\* C35: when the slot selected for broadcast has no ECM (ecm_ready false, or
\* an ECM of zero packets), getNextECMPacket yields a null packet, leaves
\* ecm_cc and ecm_pkt_index as they are and does not abort; otherwise it
\* yields a packet of the ECM of the slot on PID ecm_pid, and the index moves
\* to the next packet of the ECM, to 0 after the last one.
C35_GetNextECMPacket ==
    [][GetECMStep =>
          IF ~BroadcastSlot.ecm_ok \/ BroadcastSlot.ecm.size = 0
          THEN /\ sp_out'.kind = "null"
               /\ sp_out'.pid = PID_NULL
               /\ sp_out'.status = "OK"
               /\ sp'.ecm_cc = sp.ecm_cc
               /\ cp'[CurrentECM(sp)].ecm_pkt_index = BroadcastSlot.ecm_pkt_index
               /\ sp'.abort = sp.abort
          ELSE /\ sp_out'.kind = "ecm"
               /\ sp_out'.pid = sp.ecm_pid
               /\ sp_out'.ecm_of = BroadcastSlot.ecm.cp_number
               /\ cp'[CurrentECM(sp)].ecm_pkt_index =
                     IF BroadcastSlot.ecm_pkt_index + 1 >= BroadcastSlot.ecm.size
                     THEN 0 ELSE BroadcastSlot.ecm_pkt_index + 1]_vars

\* C35 witness: getNextECMPacket was called on a slot whose ECM is ready and
\* has no packet, after ECM packets were sent; it gave a null packet.
C35_Witness ==
    /\ sp_hist.op = "getNextECMPacket"
    /\ sp_pc = "idle"
    /\ BroadcastSlot.ecm_ok
    /\ BroadcastSlot.ecm.size = 0
    /\ BroadcastSlot.ecm.whole
    /\ sp_out.kind = "null"
    /\ sp.ecm_cc > 0
    /\ ~sp.abort

\* C37 as claimed: whenever getNextECMPacket takes a packet from a slot whose
\* ecm_ready is true and whose ECM is not empty, ecm_pkt_index is smaller
\* than the number of packets of the ECM of the slot.
C37_AssertionHolds ==
    sp_hist.read.slot # 0 => ~sp_hist.read.beyond

\* C36 as claimed: the crypto-period number of the slot used for scrambling
\* never goes back: it changes only when current_cw toggles, and then from N
\* to N+1 modulo 2^16.
C36_PeriodNeverGoesBack ==
    [][~opt.use_fixed_key =>
          IF CWToggles THEN CWPeriod' = PeriodPlus(CWPeriod, 1)
          ELSE CWPeriod' = CWPeriod]_vars

\* This step is the entry into scrambling with an ECMG: processPMT sets the
\* three clocks (lines 744-753).
EntersScrambling == ~sp.ready /\ sp'.ready /\ ~opt.use_fixed_key /\ ~sp'.abort

\* Bitrates at which the distances are compared.
SampleBitrates == {1, 1504, 3008, 15040, 1000000}

\* C38: whatever delay_start the ECMG returns, the delay_start in use is
\* within [-cp_duration/2, +cp_duration/2] (and is the one of the ECMG when
\* that one is in this range); so at the entry into scrambling
\* pkt_change_ecm, which is pkt_change_cw minus the distance of |delay_start|
\* when delay_start <= 0, is not below zero nor below the packet count of
\* the entry.
C38_ClampedDelayStart ==
    /\ [](\A d \in DelayStarts :
            /\ ClampDelayStart(d) >= 0 - (CP_DURATION \div 2)
            /\ ClampDelayStart(d) <= CP_DURATION \div 2
            /\ (Abs(d) <= CP_DURATION \div 2) => ClampDelayStart(d) = d
            /\ \A b \in SampleBitrates :
                  PacketDistance(b, ClampDelayStart(d)) <= PacketDistance(b, CP_DURATION))
    /\ [](~opt.use_fixed_key => Abs(opt.delay_start) <= CP_DURATION \div 2)
    /\ [][EntersScrambling =>
            /\ sp'.pkt_change_cw =
                  sp_hist'.entry + PacketDistance(sp'.ts_bitrate, CP_DURATION)
            /\ opt.delay_start <= 0 =>
                  sp'.pkt_change_ecm =
                      sp'.pkt_change_cw - PacketDistance(sp'.ts_bitrate, Abs(opt.delay_start))
            /\ sp'.pkt_change_ecm >= sp_hist'.entry
            /\ sp'.pkt_change_ecm >= 0]_vars

\* C38 witness: the ECMG returned a delay_start below -cp_duration/2;
\* scrambling was entered and the ECM changes one packet before the control
\* word, after the packet of the entry.
C38_Witness ==
    /\ ~opt.use_fixed_key
    /\ opt.delay_start = 0 - (CP_DURATION \div 2)
    /\ sp.ready
    /\ ~sp.abort
    /\ sp_hist.entry > 0
    /\ sp.pkt_change_cw = sp_hist.entry + 2
    /\ sp.pkt_change_ecm = sp_hist.entry + 1
    /\ sp.current_ecm = 0

(***************************************************************************)
(* Properties of the demux, continued.                                     *)
(***************************************************************************)
\* This step is processPacket on a packet whose continuity counter is in the
\* relation rel with the one of its synchronized PID.
FeedWithCC(rel) ==
    last_op'.op = "feed" /\ last_op'.pid \in pid_filter /\ last_op'.g_cc = rel

\* C33: on a synchronized PID, a packet which repeats the previous continuity
\* counter changes nothing (status, PID contexts, no handler invoked); a
\* packet whose counter is neither the previous one nor the next one counts
\* one discontinuity and drops what was buffered: what is buffered or
\* delivered afterwards comes from this packet. Every section delivered is
\* made of payloads of packets in continuity, in their order.
C33_Continuity ==
    /\ [][FeedWithCC("same") => (UNCHANGED <<pids, status>> /\ calls' = <<>>)]_vars
    /\ [][FeedWithCC("jump") =>
            /\ last_op'.g_incr.discontinuities = 1
            /\ "discontinuity" \in last_op'.g_lost
            /\ \A i \in 1 .. Len(calls') : calls'[i].g_first.pkt = sd_packet_count
            /\ last_op'.pid \in DOMAIN pids' =>
                  \A i \in 1 .. Len(pids'[last_op'.pid].g_org) :
                      pids'[last_op'.pid].g_org[i].pkt = sd_packet_count]_vars
    /\ [](\A i \in 1 .. Len(calls) : calls[i].g_chain)

\* C33 witness: a packet which repeats the continuity counter of its PID was
\* fed while the start of a section was buffered on the PID, and was dropped.
C33_Witness ==
    /\ last_op.op = "feed"
    /\ last_op.g_cc = "same"
    /\ last_op.pid \in DOMAIN pids
    /\ pids[last_op.pid].ts # <<>>
    /\ calls = <<>>
    /\ status = StatusZero

\* The ETID context of etid on pid in the PID contexts p, if there is one.
ETIDContextOf(p, pid, etid) ==
    IF pid \in DOMAIN p /\ etid \in DOMAIN p[pid].tids THEN <<p[pid].tids[etid]>> ELSE <<>>

\* A section with a long header and current_next_indicator 0.
IsNextSection(sect) == sect.data # <<>> /\ IsLong(sect.data) /\ sect.data[6] % 2 = 0

\* No section handed to a handler or stored in a slot is a 'next' section.
NoNextKept ==
    /\ \A i \in 1 .. Len(calls) : \A j \in 1 .. Len(calls[i].sects) :
          ~IsNextSection(calls[i].sects[j])
    /\ \A pid \in DOMAIN pids : \A etid \in DOMAIN pids[pid].tids :
          \A j \in 1 .. Len(pids[pid].tids[etid].sects) :
              ~IsNextSection(pids[pid].tids[etid].sects[j])

\* This step is processPacket on a packet in which 'next' sections were met.
FeedWithNext == last_op'.op = "feed" /\ last_op'.g_next # <<>>

\* The ETID contexts of the 'next' sections met in this step are as before,
\* no section of these ETIDs being handed to a handler in this step and the
\* PID keeping its context.
NextLeavesContext ==
    \A k \in 1 .. Len(last_op'.g_next) :
        LET etid == last_op'.g_next[k].etid
        IN  (/\ last_op'.pid \in DOMAIN pids'
             /\ \A i \in 1 .. Len(calls') : calls'[i].etid # etid)
            => ETIDContextOf(pids', last_op'.pid, etid) = ETIDContextOf(pids, last_op'.pid, etid)

\* The section which follows a 'next' section in the packet is handed to the
\* section handler.
NextIsPassed ==
    (section_handler /\ last_op'.g_kind = "legal" /\ last_op'.g_cc # "jump")
        => \E i \in 1 .. Len(calls') : calls'[i].kind = "section" /\ calls'[i].sects[1].data = Sh41

\* C34 as claimed: a 'next' section is never handed to a handler nor stored,
\* leaves the ETID context of its ETID as it is, increments no status counter,
\* and the section which follows it in the buffer is parsed.
C34_NextIgnored ==
    /\ []NoNextKept
    /\ [][FeedWithNext =>
            /\ NextLeavesContext
            /\ NextIsPassed
            /\ last_op'.g_incr = StatusZero]_vars

\* The number of 'next' sections of the step whose section number is greater
\* than their last section number.
RECURSIVE CountBad(_)
CountBad(nexts) ==
    IF nexts = <<>> THEN 0
    ELSE (IF nexts[1].bad THEN 1 ELSE 0) + CountBad(Tail(nexts))

\* C34 amended: a 'next' section is never handed to a handler nor stored,
\* leaves the ETID context of its ETID as it is, and the section which follows
\* it in the buffer is parsed; it increments no status counter but
\* inv_sect_index, which is incremented when its section number is greater
\* than its last section number (the test of lines 372-375 comes before the
\* 'next' indicator is looked at).
C34_NextIgnoredButNumbered ==
    /\ []NoNextKept
    /\ [][FeedWithNext =>
            /\ NextLeavesContext
            /\ NextIsPassed
            /\ last_op'.g_incr = [StatusZero EXCEPT !.inv_sect_index = CountBad(last_op'.g_next)]]_vars

\* C34 witness: a 'next' section of version 3 came for a table whose context
\* holds a section of version 1; the context is as it was and the short
\* section which follows was handed to the section handler.
C34_Witness ==
    /\ last_op.op = "feed"
    /\ Len(last_op.g_next) = 1
    /\ ~last_op.g_next[1].bad
    /\ ETIDContextOf(pids, last_op.pid, last_op.g_next[1].etid) # <<>>
    /\ ETIDContextOf(pids, last_op.pid, last_op.g_next[1].etid)[1].version = 1
    /\ ETIDContextOf(pids, last_op.pid, last_op.g_next[1].etid)[1].sect_received = 1
    /\ Len(calls) = 1
    /\ calls[1].sects[1].data = Sh41

\* This step is processPacket on a packet in which a long section was
\* rejected for its CRC32 (lines 422-429).
FeedWithBadCrc == last_op'.op = "feed" /\ last_op'.g_bad.rejected # {}

\* The ETID context of etid exists on the PID of this step, before and after
\* it, and no section of this ETID is handed to a handler in this step.
OnlyRejected(etid) ==
    /\ ETIDContextOf(pids, last_op'.pid, etid) # <<>>
    /\ last_op'.pid \in DOMAIN pids'
    /\ \A i \in 1 .. Len(calls') : calls'[i].etid # etid

\* C39 as claimed: a long section rejected for a wrong CRC32 leaves the ETID
\* context of its ETID as it was before the packet (version, sect_expected,
\* sect_received, sections stored), whatever version the section carries.
C39_BadCrcLeavesContext ==
    [][FeedWithBadCrc =>
          \A etid \in last_op'.g_bad.rejected :
              OnlyRejected(etid) =>
                  ETIDContextOf(pids', last_op'.pid, etid) = ETIDContextOf(pids, last_op'.pid, etid)]_vars

\* What holds: the context is as it was when the rejected section carries the
\* version which the context has.
C39_BadCrcSameVersion ==
    [][FeedWithBadCrc =>
          \A etid \in last_op'.g_bad.rejected :
              (/\ OnlyRejected(etid)
               /\ ETIDContextOf(pids', last_op'.pid, etid)[1].version
                     = ETIDContextOf(pids, last_op'.pid, etid)[1].version) =>
                  ETIDContextOf(pids', last_op'.pid, etid) = ETIDContextOf(pids, last_op'.pid, etid)]_vars

\* The ETID context tc holds the complete table of the version and of the
\* number of sections which the long section b announces.
CompleteFor(tc, b) ==
    /\ IsLong(b)
    /\ tc.sect_expected > 0
    /\ tc.sect_received = tc.sect_expected
    /\ tc.version = (b[6] \div 2) % 32
    /\ tc.sect_expected = b[8] + 1

\* No table handler invocation comes from a section whose ETID context
\* (g_tc: the context when the section was looked at, line 387) held the
\* complete table of its version.
TableOncePerVersion ==
    \A i \in 1 .. Len(calls) :
        calls[i].kind = "table" =>
            \A j \in 1 .. Len(calls[i].sects) : ~CompleteFor(calls[i].g_tc, calls[i].sects[j].data)

\* This step is processPacket on a packet made of whole deliverable sections,
\* the handlers asking for no reset.
FeedWhole == last_op'.op = "feed" /\ last_op'.g_secs # <<>> /\ handler_act = "none"

\* The sections of this step which repeat a section of a complete table are
\* handed to the section handler, if there is one, and start no table.
RepeatedAreSections ==
    \A k \in 1 .. Len(last_op'.g_secs) :
        LET b == last_op'.g_secs[k]
            tc == ETIDContextOf(pids, last_op'.pid, ETID(b[1], GetUInt16(b, 4)))
        IN  (IsLong(b) /\ tc # <<>> /\ CompleteFor(tc[1], b)) =>
                /\ section_handler =>
                      \E i \in 1 .. Len(calls') :
                          calls'[i].kind = "section" /\ calls'[i].sects[1].data = b
                /\ \A i \in 1 .. Len(calls') :
                      calls'[i].kind = "table" => calls'[i].etid # ETID(b[1], GetUInt16(b, 4))
                /\ ETIDContextOf(pids', last_op'.pid, ETID(b[1], GetUInt16(b, 4))) = tc

\* This step is processPacket on a packet which loses the synchronization of
\* its PID, no section being taken from it.
FeedLosingSync ==
    /\ last_op'.op = "feed"
    /\ last_op'.g_lost # {}
    /\ last_op'.pid \in DOMAIN pids
    /\ last_op'.pid \in DOMAIN pids'
    /\ ~pids'[last_op'.pid].sync

\* C40: for long tables, sections which repeat a section of a complete table
\* of the same version never start the table handler again, the section
\* handler being invoked for each of them; a loss of synchronization on the
\* PID leaves the ETID contexts of the PID, with the sections stored, as they
\* are.
C40_TableOnce ==
    /\ []TableOncePerVersion
    /\ [][FeedWhole => RepeatedAreSections]_vars
    /\ [][FeedLosingSync => pids'[last_op'.pid].tids = pids[last_op'.pid].tids]_vars

\* C40 witness: both sections of a complete table came again in one packet;
\* the section handler was invoked twice and the table handler was not.
C40_Witness ==
    /\ last_op.op = "feed"
    /\ sd_packet_count = 2
    /\ Len(last_op.g_secs) = 2
    /\ Len(calls) = 2
    /\ \A i \in 1 .. 2 :
          /\ calls[i].kind = "section"
          /\ CompleteFor(calls[i].g_tc, calls[i].sects[1].data)
          /\ calls[i].sects[1].first = 1

====
